---- MODULE Spec2Model ----
(***************************************************************************)
(* Streamline tractography: itk::StreamlineTrackingFilter.                 *)
(*                                                                         *)
(* The world of the model is one image axis (the z axis).  Lengths are in  *)
(* millimetres and every position is an integer number of millimetres:    *)
(* voxels are 4 mm wide, the step is half a voxel (2 mm, the default of    *)
(* BeforeTracking) and the sampling distance a quarter voxel (1 mm, the    *)
(* default).  A direction vector is stored as twice its z component, so    *)
(* that the half-length starting direction of GenerateData is an integer:  *)
(* 2 and -2 are the unit vectors, 1 and -1 the halved ones, 0 the zero     *)
(* vector.  The point shell of CreateDirections(2) is exactly the two      *)
(* poles (0,0,1) and (0,0,-1), so the neighbourhood probes stay on the     *)
(* axis.                                                                   *)
(***************************************************************************)
EXTENDS Integers, Sequences, FiniteSets, TLC

(***************************************************************************)
(* Bounds of the model.                                                    *)
(***************************************************************************)
NumVoxels == 2
MaxThreads == 2
MaxTrials == 2
MaxTracts == 1
MaxSteps == 4
MaxRuns == 2
MaxSamples == 3
MaxVotes == 4

(***************************************************************************)
(* Geometry (m_TrackingHandler->GetSpacing(), BeforeTracking).             *)
(***************************************************************************)
m_MinVoxelSize == 4
m_StepSize == m_MinVoxelSize \div 2
m_SamplingDistance == m_MinVoxelSize \div 4
m_DeflectionMod == 1

NULL == "nullptr"
\* An image that was not set (a null pointer): the function of no voxel.
NoImage == << >>
Voxels == 0 .. (NumVoxels - 1)
Threads == 1 .. MaxThreads

Abs(x) == IF x < 0 THEN -x ELSE x
Sign(x) == IF x < 0 THEN -1 ELSE IF x > 0 THEN 1 ELSE 0

\* vnl_vector_fixed::magnitude(), in halves
magnitude(v) == Abs(v)
\* vnl_vector_fixed::normalize(): the zero vector is left as it is
normalize(v) == 2 * Sign(v)

\* The voxel whose centre is nearest to a position; voxel k has its centre
\* at 4k and holds the positions 4k-2 .. 4k+1.
WorldToIndex(pos) == (pos + (m_MinVoxelSize \div 2)) \div m_MinVoxelSize
\* The centre of a voxel in world coordinates.
IndexToWorld(idx) == idx * m_MinVoxelSize
IsInsideBuffer(idx) == idx \in Voxels

\* mitk::imv::IsInsideMask with nearest-voxel lookup: an interpolator
\* without an input image, or a position outside the volume, is not inside.
\* An image is a function from the voxels to their values; a voxel is in
\* the mask when its value reaches the threshold 0.5.
IsInsideMask(pos, image) ==
  /\ image # NoImage
  /\ IsInsideBuffer(WorldToIndex(pos))
  /\ image[WorldToIndex(pos)] >= 1

\* A step of m_StepSize whatever the length of dir (a variant, not the code).
CalculateNewPosition_FullStep(pos, dir) == pos + Sign(dir) * m_StepSize
\* pos += dir * m_StepSize (dir is stored in halves)
CalculateNewPosition(pos, dir) == pos + (dir * m_StepSize) \div 2

(***************************************************************************)
(* State.                                                                  *)
(***************************************************************************)
VARIABLES
  par,                     \* the options the user set (never written by a run)
  NumberOfThreads,         \* omp_get_max_threads(): the size of the team
  m_EndpointConstraint,
  m_StoppingRegions, m_TargetRegions, m_SeedImage, m_MaskImage,
  m_ExclusionRegions,      \* images: NoImage, or a function voxel -> value
  m_TargetImageSet, m_SeedImageSet,
  m_TargetInterpolator, m_ExclusionInterpolator, \* the input image, or NoImage
  m_SeedPoints,            \* sequence of world positions
  m_PauseTracking, m_AbortTracking, m_StopTracking, m_Stop,
  m_CurrentTracts, m_Progress, m_Verbose,
  m_Tractogram,            \* sequence of fibers (sequences of positions)
  m_OutputProbabilityMap,  \* [count: voxel -> Nat, rescaled: BOOLEAN]
  m_BuildFibersReady, m_BuildFibersFinished,
  phase,                   \* "configured" | "tracking" | "finished" | "error"
  i,                       \* the shared seed cursor of GenerateData
  num_seeds,
  pc,                      \* per thread: where it stands in GenerateData
  loc,                     \* per thread: the locals of GenerateData / FollowStreamline
  hist                     \* history of the run (what was dispatched, tried, accepted)

cfgvars == <<par, NumberOfThreads>>
imgvars == <<m_StoppingRegions, m_TargetRegions, m_SeedImage, m_MaskImage,
             m_ExclusionRegions, m_TargetImageSet, m_SeedImageSet,
             m_TargetInterpolator, m_ExclusionInterpolator>>
flagvars == <<m_PauseTracking, m_AbortTracking, m_Stop>>
outvars == <<m_CurrentTracts, m_Tractogram, m_OutputProbabilityMap>>
demovars == <<m_BuildFibersReady, m_BuildFibersFinished>>
vars == <<cfgvars, imgvars, flagvars, outvars, demovars, m_EndpointConstraint,
          m_SeedPoints, m_StopTracking, m_Progress, m_Verbose, phase, i,
          num_seeds, pc, loc, hist>>

\* The options, under the names of the members that hold them.
m_DemoMode == par.m_DemoMode
m_Random == par.m_Random
m_RandomSampling == par.m_RandomSampling
m_UseOutputProbabilityMap == par.m_UseOutputProbabilityMap
m_MaxNumTracts == par.m_MaxNumTracts
m_TrialsPerSeed == par.m_TrialsPerSeed
m_MinTractLength == par.m_MinTractLength
m_MaxTractLength == par.m_MaxTractLength
m_MaxLength == par.m_MaxLength
m_NumPreviousDirections == par.m_NumPreviousDirections
m_LoopCheck == par.m_LoopCheck
m_AvoidStop == par.m_AvoidStop
m_OnlyForwardSamples == par.m_OnlyForwardSamples
m_UseStopVotes == par.m_UseStopVotes
m_NumberOfSamples == par.m_NumberOfSamples
m_SeedsPerVoxel == par.m_SeedsPerVoxel
m_TrackingPriorHandler == par.m_TrackingPriorHandler
\* The tracking handler, as the set of directions it proposes in its field.
m_TrackingHandler == par.m_TrackingHandler
\* What the caller does while the filter runs, and whether it runs it again.
Caller == par.Caller
m_IntroduceDirectionsFromPrior == par.m_IntroduceDirectionsFromPrior
m_TrackingPriorAsMask == par.m_TrackingPriorAsMask
m_TrackingPriorWeight == par.m_TrackingPriorWeight  \* in halves: 0, 1 (0.5), 2 (1.0)
\* m_TrackingHandler->GetMode()
Mode == par.Mode

\* The interpolators BeforeTracking always connects to their image.
m_MaskInterpolator == m_MaskImage
m_StopInterpolator == m_StoppingRegions
m_SeedInterpolator == m_SeedImage

\* mitk::imv::GetImageValue without interpolation
GetImageValue(pos, image) ==
  IF image # NoImage /\ IsInsideBuffer(WorldToIndex(pos))
  THEN image[WorldToIndex(pos)] ELSE 0

(***************************************************************************)
(* IsValidFiber: "true", "false", or "throw" (mitkThrow).                   *)
(***************************************************************************)
front(fib) == fib[1]
back(fib) == fib[Len(fib)]

\* One end point in the target is enough (a variant, not the code).
BothEndpointsInTarget_EitherOne(frontInTarget, backInTarget) ==
  frontInTarget \/ backInTarget

\* lines 803-806: EPS_IN_TARGET
BothEndpointsInTarget(frontInTarget, backInTarget) ==
  frontInTarget /\ backInTarget

\* The sense of the test turned round (a variant, not the code).
NoEndpointInTarget_Inverted(frontInTarget, backInTarget) ==
  frontInTarget \/ backInTarget

\* lines 870-873: NO_EP_IN_TARGET
NoEndpointInTarget(frontInTarget, backInTarget) ==
  ~(frontInTarget \/ backInTarget)

IsValidFiberOf(fib, constraint, targetSet, seedSet, targetInterp, seedInterp) ==
  LET frontInTarget == IsInsideMask(front(fib), targetInterp)
      backInTarget == IsInsideMask(back(fib), targetInterp)
      frontInSeed == IsInsideMask(front(fib), seedInterp)
      backInSeed == IsInsideMask(back(fib), seedInterp)
      bool(b) == IF b THEN "true" ELSE "false"
  IN CASE constraint = "NONE" -> "true"
       [] constraint = "EPS_IN_TARGET" ->
            IF targetSet
            THEN bool(BothEndpointsInTarget(frontInTarget, backInTarget))
            ELSE "throw"
       [] constraint = "EPS_IN_TARGET_LABELDIFF" ->
            IF targetSet
            THEN LET v1 == GetImageValue(front(fib), targetInterp)
                     v2 == GetImageValue(back(fib), targetInterp)
                 IN bool(v1 > 0 /\ v2 > 0 /\ v1 # v2)
            ELSE "throw"
       [] constraint = "EPS_IN_SEED_AND_TARGET" ->
            IF targetSet /\ seedSet
            THEN bool(\/ frontInSeed /\ backInTarget
                      \/ backInSeed /\ frontInTarget)
            ELSE "throw"
       [] constraint = "MIN_ONE_EP_IN_TARGET" ->
            IF targetSet
            THEN bool(frontInTarget \/ backInTarget) ELSE "throw"
       [] constraint = "ONE_EP_IN_TARGET" ->
            IF targetSet
            THEN bool(\/ frontInTarget /\ ~backInTarget
                      \/ ~backInTarget /\ frontInTarget)
            ELSE "throw"
       [] constraint = "NO_EP_IN_TARGET" ->
            IF targetSet
            THEN bool(NoEndpointInTarget(frontInTarget, backInTarget))
            ELSE "throw"
       [] OTHER -> "true"

IsValidFiber(fib) ==
  IsValidFiberOf(fib, m_EndpointConstraint, m_TargetImageSet, m_SeedImageSet,
                 m_TargetInterpolator, m_SeedInterpolator)

(***************************************************************************)
(* FiberToProbmap: the counts after one fiber was added.                   *)
(***************************************************************************)
RECURSIVE FiberToProbmapFrom(_, _, _, _)
FiberToProbmapFrom(fib, k, last_idx, count) ==
  IF k > Len(fib) THEN count
  ELSE LET idx == WorldToIndex(fib[k])
       IN IF idx # last_idx
          THEN FiberToProbmapFrom(fib, k + 1, idx,
                 IF IsInsideBuffer(idx)
                 THEN [count EXCEPT ![idx] = @ + 1] ELSE count)
          ELSE FiberToProbmapFrom(fib, k + 1, last_idx, count)

\* The counts of this fiber alone overwrite the map, as when an update of
\* another thread is lost (a variant, not the code).
FiberToProbmap_LostUpdate(fib, map) ==
  [map EXCEPT !.count = FiberToProbmapFrom(fib, 1, 0, [v \in Voxels |-> 0])]

FiberToProbmap(fib, map) ==
  [map EXCEPT !.count = FiberToProbmapFrom(fib, 1, 0, map.count)]

(***************************************************************************)
(* CreateDirections: the point shell, as the z components of its vectors   *)
(* (in halves).  Vector i of n has z = 1 - 2i/(n-1); the world of the      *)
(* model holds the shells whose vectors lie on the axis, n <= 2.           *)
(***************************************************************************)
\* A shell one vector short (a variant, not the code).
CreateDirections_OneShort(NPoints) ==
  IF NPoints < 2 THEN << >>
  ELSE [k \in 1 .. (NPoints - 1) |->
          2 - (4 * (k - 1)) \div (NPoints - 1)]

CreateDirections(NPoints) ==
  IF NPoints < 2 THEN << >>
  ELSE [k \in 1 .. NPoints |->
          2 - (4 * (k - 1)) \div (NPoints - 1)]

(***************************************************************************)
(* GetNewDirection.  orc holds what the collaborators answer during the    *)
(* call: orc.base, orc.probe[k], orc.recov[k] are ProposeDirection of the  *)
(* tracking handler at the position, at probe k and at its recovery probe, *)
(* orc.prior is ProposeDirection of the prior handler, orc.rnd[k] the      *)
(* random probe offset (GetRandDouble), in halves of a millimetre.         *)
(***************************************************************************)
Last(seq) == seq[Len(seq)]

\* The stopping mask left out of the test (a variant, not the code).
InsideTrackingRegion_MaskOnly(pos) ==
  IsInsideMask(pos, m_MaskInterpolator)

\* line 387: the position is in the tracking mask and not in the stopping
\* mask; ProposeDirection is called (line 388) only if it is, and the zero
\* direction returned at once (line 390) if it is not.
InsideTrackingRegion(pos) ==
  /\ IsInsideMask(pos, m_MaskInterpolator)
  /\ ~IsInsideMask(pos, m_StopInterpolator)

\* One pass of the probe loop: acc = [direction, stop_votes,
\* possible_stop_votes, trace]; the trace keeps, for every pass, what the
\* pass did: its offset d, whether it was a stop voter, was skipped, asked
\* ProposeDirection at the probe and at the recovery probe, the answers,
\* and what it added to the direction.
ProbeStep(pos, olddir, probeVec, k, orc, acc) ==
  LET random == m_Random /\ m_RandomSampling
      dot0 == (probeVec * olddir) \div 4
      is_stop_voter == ~random /\ m_UseStopVotes /\ probeVec * olddir >= 3
      skipped == ~random /\ ~is_stop_voter /\ m_OnlyForwardSamples /\ dot0 < 0
      d == IF random THEN orc.rnd[k] ELSE probeVec * m_SamplingDistance
      possible == acc.possible_stop_votes + (IF is_stop_voter THEN 1 ELSE 0)
      sample_pos == pos + d \div 2
      asked == IsInsideMask(sample_pos, m_MaskInterpolator)
      tempDir == IF asked THEN orc.probe[k] ELSE 0
      dot == d * olddir
      d2 == IF dot >= 0 THEN -d + (d * olddir * olddir) \div 2 ELSE -d
      sample_pos2 == pos + d2 \div 2
      asked2 == IsInsideMask(sample_pos2, m_MaskInterpolator)
      tempDir2 == IF asked2 THEN orc.recov[k] ELSE 0
      voted == acc.stop_votes + (IF is_stop_voter THEN 1 ELSE 0)
      event == [k |-> k, d |-> d, dot |-> dot, is_stop_voter |-> is_stop_voter,
                skipped |-> skipped, asked |-> FALSE, tempDir |-> 0,
                recovery |-> FALSE, d2 |-> 0, asked2 |-> FALSE, tempDir2 |-> 0,
                added |-> 0, votes |-> 0]
      pass(direction, stop_votes, possible_stop_votes, e) ==
        [direction |-> direction, stop_votes |-> stop_votes,
         possible_stop_votes |-> possible_stop_votes,
         trace |-> Append(acc.trace,
                          [e EXCEPT !.added = direction - acc.direction,
                                    !.votes = stop_votes - acc.stop_votes])]
  IN IF skipped
     THEN pass(acc.direction, acc.stop_votes, acc.possible_stop_votes, event)
     ELSE IF magnitude(tempDir) > 0
     THEN pass(acc.direction + tempDir, acc.stop_votes, possible,
               [event EXCEPT !.asked = asked, !.tempDir = tempDir])
     ELSE IF m_AvoidStop /\ magnitude(olddir) > 1
     THEN pass(IF magnitude(tempDir2) > 0
               THEN acc.direction + d2 * m_DeflectionMod + tempDir2
               ELSE acc.direction,
               voted, possible,
               [event EXCEPT !.asked = asked, !.tempDir = tempDir,
                             !.recovery = TRUE, !.d2 = d2, !.asked2 = asked2,
                             !.tempDir2 = tempDir2])
     ELSE pass(acc.direction, voted, possible,
               [event EXCEPT !.asked = asked, !.tempDir = tempDir])

RECURSIVE ProbeLoop(_, _, _, _, _, _)
ProbeLoop(pos, olddir, probeVecs, k, orc, acc) ==
  IF k > Len(probeVecs) THEN acc
  ELSE ProbeLoop(pos, olddir, probeVecs, k + 1, orc,
                 ProbeStep(pos, olddir, probeVecs[k], k, orc, acc))

\* The direction before any call of ProposeDirection (line 385).
NoDirection ==
  [direction |-> 0, stop_votes |-> 0, possible_stop_votes |-> 0,
   trace |-> << >>]

\* lines 388-485: the direction of the handler at the position and the sum
\* of the probe loop over it
Accumulate(pos, olddirs, orc) ==
  LET start == [NoDirection EXCEPT !.direction = orc.base]
  IN IF olddirs # << >>
     THEN ProbeLoop(pos, Last(olddirs),
                    CreateDirections(m_NumberOfSamples), 1, orc, start)
     ELSE start

\* Half of the stop voters may vote to stop (a variant, not the code).
ValidDirection_HalfAllowed(acc) ==
  /\ magnitude(acc.direction) > 0
  /\ \/ acc.possible_stop_votes = 0
     \/ 2 * acc.stop_votes <= acc.possible_stop_votes

\* line 488: direction.magnitude()>0.001 && (possible_stop_votes==0 ||
\* (float)stop_votes/possible_stop_votes<0.5)
ValidDirection(acc) ==
  /\ magnitude(acc.direction) > 0
  /\ \/ acc.possible_stop_votes = 0
     \/ 2 * acc.stop_votes < acc.possible_stop_votes

\* The prior handler is left out (a variant, not the code).
ApplyPrior_NeverAMask(direction, valid, prior) == direction

\* lines 496-509: the direction of the prior handler blended in
ApplyPrior(direction, valid, prior) ==
  IF m_TrackingPriorHandler # NULL
     /\ (m_IntroduceDirectionsFromPrior \/ valid)
  THEN IF magnitude(prior) > 0
       THEN LET prior0 == normalize(prior)
                flipped == IF prior0 * direction < 0 THEN -prior0 ELSE prior0
            IN normalize((2 - m_TrackingPriorWeight) * direction
                         + m_TrackingPriorWeight * flipped)
       ELSE IF m_TrackingPriorAsMask THEN 0 ELSE direction
  ELSE direction

GetNewDirection(pos, olddirs, orc) ==
  IF ~InsideTrackingRegion(pos)
  THEN 0
  ELSE
    LET acc == Accumulate(pos, olddirs, orc)
        valid == ValidDirection(acc)
        direction == IF valid THEN normalize(acc.direction) ELSE 0
    IN ApplyPrior(direction, valid, orc.prior)

\* No call of GetNewDirection is under way or has just returned.
NoCall ==
  [acc |-> NoDirection, valid |-> FALSE, prior |-> 0,
   olddirs |-> << >>, direction |-> 0]

\* The locals of a call of GetNewDirection when it returns.
GetNewDirectionLocals(pos, olddirs, orc) ==
  IF ~InsideTrackingRegion(pos)
  THEN [NoCall EXCEPT !.olddirs = olddirs]
  ELSE [acc |-> Accumulate(pos, olddirs, orc),
        valid |-> ValidDirection(Accumulate(pos, olddirs, orc)),
        prior |-> orc.prior, olddirs |-> olddirs,
        direction |-> GetNewDirection(pos, olddirs, orc)]

\* What a handler can answer: unit vectors along the axis, or zero.
Answers == {-2, 0, 2}
Offsets == {-2, 0, 2}
Samples == 1 .. m_NumberOfSamples

\* Whether the probe loop asks the handler at probe k, and at its recovery
\* probe when the probe's answer is `answer`.
ProbeAsked(pos, olddirs, k, offset) ==
  /\ olddirs # << >>
  /\ k <= Len(CreateDirections(m_NumberOfSamples))
  /\ LET olddir == Last(olddirs)
         probeVec == CreateDirections(m_NumberOfSamples)[k]
         random == m_Random /\ m_RandomSampling
         d == IF random THEN offset ELSE probeVec * m_SamplingDistance
     IN /\ random \/ (m_UseStopVotes /\ probeVec * olddir >= 3)
               \/ ~(m_OnlyForwardSamples /\ probeVec * olddir < 0)
        /\ IsInsideMask(pos + d \div 2, m_MaskInterpolator)

RecoveryAsked(pos, olddirs, k, offset, answer) ==
  /\ olddirs # << >>
  /\ k <= Len(CreateDirections(m_NumberOfSamples))
  /\ answer = 0
  /\ m_AvoidStop /\ magnitude(Last(olddirs)) > 1
  /\ LET olddir == Last(olddirs)
         probeVec == CreateDirections(m_NumberOfSamples)[k]
         random == m_Random /\ m_RandomSampling
         d == IF random THEN offset ELSE probeVec * m_SamplingDistance
         d2 == IF d * olddir >= 0 THEN -d + (d * olddir * olddir) \div 2 ELSE -d
     IN /\ random \/ (m_UseStopVotes /\ probeVec * olddir >= 3)
               \/ ~(m_OnlyForwardSamples /\ probeVec * olddir < 0)
        /\ IsInsideMask(pos + d2 \div 2, m_MaskInterpolator)

\* The answers of the collaborators that a call of GetNewDirection can
\* get; an answer that is never asked for is left zero.
Oracles(pos, olddirs) ==
  IF ~InsideTrackingRegion(pos)
  THEN {[base |-> 0, probe |-> [k \in Samples |-> 0],
         recov |-> [k \in Samples |-> 0], rnd |-> [k \in Samples |-> 0],
         prior |-> 0]}
  ELSE
    LET rnds == IF olddirs # << >> /\ m_Random /\ m_RandomSampling
                THEN [Samples -> Offsets] ELSE {[k \in Samples |-> 0]}
        probes(rnd) ==
          {f \in [Samples -> Answers] :
             \A k \in Samples :
               IF ProbeAsked(pos, olddirs, k, rnd[k])
               THEN f[k] \in m_TrackingHandler ELSE f[k] = 0}
        recovs(rnd, probe) ==
          {f \in [Samples -> Answers] :
             \A k \in Samples :
               IF RecoveryAsked(pos, olddirs, k, rnd[k],
                                IF ProbeAsked(pos, olddirs, k, rnd[k])
                                THEN probe[k] ELSE 0)
               THEN f[k] \in m_TrackingHandler ELSE f[k] = 0}
        priors == IF m_TrackingPriorHandler = NULL THEN {0} ELSE Answers
    IN UNION {UNION {{[base |-> b, probe |-> pr, recov |-> rc, rnd |-> rnd,
                      prior |-> q] :
                        b \in m_TrackingHandler, rc \in recovs(rnd, pr), q \in priors} :
                     pr \in probes(rnd)} :
              rnd \in rnds}

(***************************************************************************)
(* CheckCurvature: the mean deviation, in degrees, of the last directions  *)
(* from their sign-aligned mean.  All directions lie on one axis, so each  *)
(* deviates by acos(1) = 0 degrees.                                        *)
(***************************************************************************)
CheckCurvature(container, isFront) ==
  IF Len(container) < 8 THEN 0 ELSE 0

(***************************************************************************)
(* GetSeedPointsFromSeedImage: the centre of every voxel of the seed image *)
(* with a positive value that lies in the tracking mask, followed by       *)
(* m_SeedsPerVoxel - 1 points of that voxel drawn at random (jit[v][s] is  *)
(* the offset GetRandDouble gives for seed s of voxel v).                  *)
(***************************************************************************)
RECURSIVE JitteredSeeds(_, _, _)
JitteredSeeds(v, sd, jit) ==
  IF sd >= m_SeedsPerVoxel THEN << >>
  ELSE <<IndexToWorld(v) + jit[v][sd]>> \o JitteredSeeds(v, sd + 1, jit)

RECURSIVE SeedPointsFrom(_, _, _, _)
SeedPointsFrom(v, seedImage, maskInterp, jit) ==
  IF v >= NumVoxels THEN << >>
  ELSE (IF seedImage[v] > 0 /\ IsInsideMask(IndexToWorld(v), maskInterp)
        THEN <<IndexToWorld(v)>> \o JitteredSeeds(v, 1, jit)
        ELSE << >>)
       \o SeedPointsFrom(v + 1, seedImage, maskInterp, jit)

\* A seed in every voxel of the tracking mask, whatever the seed image holds
\* (a variant, not the code).
GetSeedPointsFromSeedImage_EveryVoxel(seedImage, maskInterp, jit) ==
  SeedPointsFrom(0, [v \in Voxels |-> 1], maskInterp, jit)

GetSeedPointsFromSeedImage(seedImage, maskInterp, jit) ==
  SeedPointsFrom(0, seedImage, maskInterp, jit)

\* The offsets of a random seed from its voxel's centre: any point of the voxel.
JitterOffsets == (0 - m_MinVoxelSize \div 2) .. (m_MinVoxelSize \div 2 - 1)
Jitters ==
  IF m_SeedsPerVoxel <= 1
  THEN {[v \in Voxels |-> << >>]}
  ELSE [Voxels -> [1 .. (m_SeedsPerVoxel - 1) -> JitterOffsets]]

\* std::random_shuffle: any order of the same points
Shuffles(seq) ==
  LET n == Len(seq)
      perms == {f \in [1 .. n -> 1 .. n] : \A a, b \in 1 .. n : a # b => f[a] # f[b]}
  IN {[k \in 1 .. n |-> seq[f[k]]] : f \in perms}

\* m_OutputProbabilityMap before a map was allocated (a null pointer)
NoProbabilityMap == [count |-> << >>, rescaled |-> FALSE]

Ones == [v \in Voxels |-> 1]
Zeros == [v \in Voxels |-> 0]

(***************************************************************************)
(* Locals of one thread.                                                   *)
(***************************************************************************)
NoLocals ==
  [temp_i |-> 0, trials |-> 0, worldPos |-> 0,
   fib |-> << >>, direction_container |-> << >>, tractLength |-> 0,
   exclude |-> FALSE, success |-> FALSE, startDir |-> 0,
   \* FollowStreamline
   pos |-> 0, dir |-> 0, isFront |-> FALSE, step |-> 0, last_dirs |-> << >>,
   \* history of the trial: every position it computed, whether a pass of
   \* it returned on m_AbortTracking; whether m_AbortTracking was set when
   \* the loop of the seeds made its test (line 702)
   reached |-> {}, aborted |-> FALSE, late |-> FALSE,
   \* GetNewDirection: whether the thread has come to line 397, and the
   \* shell CreateDirections gave it there
   called |-> FALSE, probeVecs |-> << >>,
   \* whether its last call of GetNewDirection asked a handler for a
   \* direction (lines 388-498)
   queried |-> FALSE,
   \* the locals of the call of GetNewDirection it has just returned from
   gnd |-> NoCall]

\* The threads of the team: one in demo mode (omp_set_num_threads(1)).
Team == 1 .. (IF m_DemoMode THEN 1 ELSE NumberOfThreads)

(***************************************************************************)
(* BeforeTracking and the head of GenerateData (to the parallel region).   *)
(***************************************************************************)
EndpointAutoSetting(constraint, targetSet, seedSet) ==
  IF constraint = "NONE" /\ targetSet /\ seedSet THEN "EPS_IN_SEED_AND_TARGET"
  ELSE IF constraint = "NONE" /\ targetSet THEN "EPS_IN_TARGET"
  ELSE constraint

\* BeforeTracking without the test of the constraint (a variant, not the
\* code).
CheckEndpointConstraint_Skipped(constraint, targetSet, seedSet, targetInterp, seedInterp) ==
  "true"

\* lines 259-262: IsValidFiber on a test fiber of two points at the origin
CheckEndpointConstraint(constraint, targetSet, seedSet, targetInterp, seedInterp) ==
  LET test_fib == <<0, 0>>
  IN IsValidFiberOf(test_fib, constraint, targetSet, seedSet,
                    targetInterp, seedInterp)

\* line 697: print_interval = num_seeds/100, as num_seeds/parts
PrintInterval(n, parts) == n \div parts

\* BeforeTracking and lines 689-699, the progress being reported `parts`
\* times in a run and only at intervals of `least` seeds or more.
StartTrackingWith(parts, least) ==
  /\ phase = "configured"
  /\ LET targetSet == m_TargetRegions # NoImage
         seedSet == m_SeedImage # NoImage
         constraint == EndpointAutoSetting(m_EndpointConstraint, targetSet, seedSet)
         seedImage == IF seedSet THEN m_SeedImage ELSE Ones
         maskImage == IF m_MaskImage # NoImage THEN m_MaskImage ELSE Ones
         targetInterp == IF targetSet THEN m_TargetRegions ELSE NoImage
         check == CheckEndpointConstraint(constraint, targetSet, seedSet,
                                          targetInterp, seedImage)
     IN /\ m_StopTracking' = FALSE
        /\ m_StoppingRegions' =
             IF m_StoppingRegions = NoImage THEN Zeros ELSE m_StoppingRegions
        /\ m_ExclusionInterpolator' = m_ExclusionRegions
        /\ m_TargetImageSet' = targetSet
        /\ m_TargetRegions' = IF targetSet THEN m_TargetRegions ELSE Ones
        /\ m_TargetInterpolator' = targetInterp
        /\ m_SeedImageSet' = seedSet
        /\ m_SeedImage' = seedImage
        /\ m_MaskImage' = maskImage
        /\ m_EndpointConstraint' = constraint
        /\ m_OutputProbabilityMap' =
             IF m_UseOutputProbabilityMap
             THEN [count |-> Zeros, rescaled |-> FALSE]
             ELSE m_OutputProbabilityMap
        /\ IF check = "throw"
           THEN \* mitkThrow() leaves BeforeTracking at line 262
                /\ phase' = "error"
                /\ UNCHANGED <<m_SeedPoints, demovars, m_Tractogram,
                               m_CurrentTracts, m_Progress, m_Verbose, i,
                               num_seeds, pc, loc, hist>>
           ELSE /\ \E jit \in Jitters :
                     LET seeds == IF m_SeedPoints = << >>
                                  THEN GetSeedPointsFromSeedImage(seedImage,
                                                                  maskImage, jit)
                                  ELSE m_SeedPoints
                     IN /\ m_SeedPoints' \in
                             (IF m_Random THEN Shuffles(seeds) ELSE {seeds})
                        /\ num_seeds' = Len(seeds)
                        /\ m_Verbose' =
                             IF PrintInterval(Len(seeds), parts) < least
                             THEN FALSE ELSE m_Verbose
                        /\ hist' = [tracked |-> [k \in 0 .. (Len(seeds) - 1) |-> 0],
                                    trials |-> [k \in 0 .. (Len(seeds) - 1) |-> 0],
                                    accepted |-> << >>,
                                    outputs |-> hist.outputs,
                                    user |-> hist.user,
                                    generated |-> m_SeedPoints = << >>]
                /\ m_BuildFibersReady' = 0
                /\ m_BuildFibersFinished' = FALSE
                /\ m_Tractogram' = << >>
                /\ m_CurrentTracts' = 0
                /\ m_Progress' = 0
                /\ i' = 0
                /\ phase' = "tracking"
                /\ pc' = [w \in Threads |-> IF w \in Team THEN "loop" ELSE "idle"]
                /\ loc' = [w \in Threads |-> NoLocals]
  /\ UNCHANGED <<cfgvars, m_ExclusionRegions, flagvars>>

\* lines 697-699: num_seeds/100 and print_interval<100
StartTracking == StartTrackingWith(100, 100)

(***************************************************************************)
(* The parallel region of GenerateData, per thread w.                      *)
(***************************************************************************)
\* line 702: while (i<num_seeds && !m_StopTracking)
LoopCheck(w) ==
  /\ phase = "tracking" /\ pc[w] = "loop"
  /\ pc' = [pc EXCEPT ![w] = IF i < num_seeds /\ ~m_StopTracking
                             THEN "cursor" ELSE "exit"]
  /\ loc' = [loc EXCEPT ![w].late = m_AbortTracking]
  /\ UNCHANGED <<cfgvars, imgvars, flagvars, outvars, demovars,
                 m_EndpointConstraint, m_SeedPoints, m_StopTracking,
                 m_Progress, m_Verbose, phase, i, num_seeds, hist>>

\* The critical section without i++ (a variant, not the code).
TakeSeed_NoIncrement(w) ==
  /\ phase = "tracking" /\ pc[w] = "cursor"
  /\ loc' = [loc EXCEPT ![w].temp_i = i]
  /\ i' = i
  /\ pc' = [pc EXCEPT ![w] = "check"]
  /\ UNCHANGED <<cfgvars, imgvars, flagvars, outvars, demovars,
                 m_EndpointConstraint, m_SeedPoints, m_StopTracking,
                 m_Progress, m_Verbose, phase, num_seeds, hist>>

\* lines 705-709: the critical section on the seed cursor
TakeSeed(w) ==
  /\ phase = "tracking" /\ pc[w] = "cursor"
  /\ loc' = [loc EXCEPT ![w].temp_i = i]
  /\ i' = i + 1
  /\ pc' = [pc EXCEPT ![w] = "check"]
  /\ UNCHANGED <<cfgvars, imgvars, flagvars, outvars, demovars,
                 m_EndpointConstraint, m_SeedPoints, m_StopTracking,
                 m_Progress, m_Verbose, phase, num_seeds, hist>>

\* Where the trial loop of line 727 goes with `trials` trials done.
TrialLoop(trials) == IF trials < m_TrialsPerSeed THEN "trial" ELSE "loop"

\* lines 711-727: skip the index, or report progress, fetch the seed point
\* and enter the trial loop
CheckSeedWith(w, parts) ==
  /\ phase = "tracking" /\ pc[w] = "check"
  /\ IF loc[w].temp_i >= num_seeds \/ m_StopTracking
     THEN /\ pc' = [pc EXCEPT ![w] = "loop"]
          /\ UNCHANGED <<m_Progress, loc, hist>>
     ELSE LET print_interval == PrintInterval(num_seeds, parts)
          IN /\ m_Progress' = IF m_Verbose /\ i % print_interval = 0
                              THEN m_Progress + print_interval ELSE m_Progress
             /\ loc' = [loc EXCEPT ![w].worldPos = m_SeedPoints[loc[w].temp_i + 1],
                                   ![w].trials = 0]
             /\ hist' = [hist EXCEPT !.tracked[loc[w].temp_i] = @ + 1]
             /\ pc' = [pc EXCEPT ![w] = TrialLoop(0)]
  /\ UNCHANGED <<cfgvars, imgvars, flagvars, outvars, demovars,
                 m_EndpointConstraint, m_SeedPoints, m_StopTracking,
                 m_Verbose, phase, i, num_seeds>>

CheckSeed(w) == CheckSeedWith(w, 100)

\* The locals of FollowStreamline at its entry (lines 515-520).
EnterFollowStreamline(l, pos, dir, isFront) ==
  [l EXCEPT !.pos = pos, !.dir = dir, !.isFront = isFront, !.step = 0,
            !.last_dirs = [k \in 1 .. (m_NumPreviousDirections - 1) |-> 0]]

\* lines 729-744: a new trial: the starting direction, the seed's exclusion
StartTrial(w) ==
  /\ phase = "tracking" /\ pc[w] = "trial"
  /\ \E orc \in Oracles(loc[w].worldPos, << >>) :
       LET worldPos == loc[w].worldPos
           dir == GetNewDirection(worldPos, << >>, orc) \div 2
           exclude == /\ m_ExclusionRegions # NoImage
                      /\ IsInsideMask(worldPos, m_ExclusionInterpolator)
           fresh == [loc[w] EXCEPT !.fib = << >>, !.direction_container = << >>,
                                   !.tractLength = 0, !.exclude = exclude,
                                   !.success = FALSE, !.startDir = dir,
                                   !.reached = {worldPos}, !.aborted = FALSE,
                                   !.queried = InsideTrackingRegion(worldPos),
                                   !.gnd = GetNewDirectionLocals(worldPos, << >>, orc)]
       IN IF magnitude(dir) > 0 /\ ~exclude
          THEN /\ loc' = [loc EXCEPT ![w] =
                            EnterFollowStreamline(fresh, worldPos, dir, FALSE)]
               /\ pc' = [pc EXCEPT ![w] = "fs_step"]
          ELSE /\ loc' = [loc EXCEPT ![w] = fresh]
               /\ pc' = [pc EXCEPT ![w] = "endtrial"]
  /\ hist' = [hist EXCEPT !.trials[loc[w].temp_i] = @ + 1]
  /\ UNCHANGED <<cfgvars, imgvars, flagvars, outvars, demovars,
                 m_EndpointConstraint, m_SeedPoints, m_StopTracking,
                 m_Progress, m_Verbose, phase, i, num_seeds>>

(***************************************************************************)
(* FollowStreamline.  One pass of its loop is three steps of the thread:   *)
(* fs_step (lines 522-537: the next position, the exclusion mask, the read *)
(* of m_AbortTracking), fs_append (lines 540-576: the point is added, the  *)
(* length checks, the next direction) and fs_pause (lines 578-581).        *)
(***************************************************************************)
\* What the caller does when a pass returns (lines 747-754): after the
\* forward pass the seed is put in front and, unless the fiber is excluded,
\* the backward pass starts; then the fiber goes to the acceptance test.
\* Gives <<locals, pc>>.
ReturnFromFollowStreamline(l) ==
  IF ~l.isFront
  THEN LET l1 == [l EXCEPT !.fib = <<l.worldPos>> \o l.fib]
       IN IF ~l1.exclude
          THEN <<EnterFollowStreamline(l1, l1.worldPos, -l1.startDir, TRUE), "fs_step">>
          ELSE <<l1, "accept">>
  ELSE <<l, "accept">>

Returns(w, l) ==
  /\ loc' = [loc EXCEPT ![w] = ReturnFromFollowStreamline(l)[1]]
  /\ pc' = [pc EXCEPT ![w] = ReturnFromFollowStreamline(l)[2]]

\* The whole of m_MaxLength for each pass (a variant, not the code).
StepsOfAPass_NotHalved == m_MaxLength

\* line 522: the bound of the loop, step < m_MaxLength/2
StepsOfAPass == m_MaxLength \div 2

\* The step without the test of the exclusion mask (a variant, not the code).
FS_Step_NoExclusionCheck(w) ==
  /\ phase = "tracking" /\ pc[w] = "fs_step"
  /\ LET l == loc[w]
         newpos == CalculateNewPosition(l.pos, l.dir)
         moved == [l EXCEPT !.pos = newpos, !.reached = @ \cup {newpos}]
     IN IF ~(l.step < StepsOfAPass)
        THEN Returns(w, l)
        ELSE IF m_AbortTracking
        THEN Returns(w, [moved EXCEPT !.aborted = TRUE])
        ELSE /\ loc' = [loc EXCEPT ![w] = moved]
             /\ pc' = [pc EXCEPT ![w] = "fs_append"]
  /\ UNCHANGED <<cfgvars, imgvars, flagvars, outvars, demovars,
                 m_EndpointConstraint, m_SeedPoints, m_StopTracking,
                 m_Progress, m_Verbose, phase, i, num_seeds, hist>>

\* The step without the read of m_AbortTracking (a variant, not the code).
FS_Step_NoAbortCheck(w) ==
  /\ phase = "tracking" /\ pc[w] = "fs_step"
  /\ LET l == loc[w]
         newpos == CalculateNewPosition(l.pos, l.dir)
         moved == [l EXCEPT !.pos = newpos, !.reached = @ \cup {newpos}]
     IN IF ~(l.step < StepsOfAPass)
        THEN Returns(w, l)
        ELSE IF /\ m_ExclusionRegions # NoImage
                /\ IsInsideMask(newpos, m_ExclusionInterpolator)
        THEN Returns(w, [moved EXCEPT !.exclude = TRUE])
        ELSE /\ loc' = [loc EXCEPT ![w] = moved]
             /\ pc' = [pc EXCEPT ![w] = "fs_append"]
  /\ UNCHANGED <<cfgvars, imgvars, flagvars, outvars, demovars,
                 m_EndpointConstraint, m_SeedPoints, m_StopTracking,
                 m_Progress, m_Verbose, phase, i, num_seeds, hist>>

\* lines 522-537: the test of the loop, the next position, the exclusion
\* mask, the read of m_AbortTracking
FS_Step(w) ==
  /\ phase = "tracking" /\ pc[w] = "fs_step"
  /\ LET l == loc[w]
         newpos == CalculateNewPosition(l.pos, l.dir)
         moved == [l EXCEPT !.pos = newpos, !.reached = @ \cup {newpos}]
     IN IF ~(l.step < StepsOfAPass)
        THEN Returns(w, l)
        ELSE IF /\ m_ExclusionRegions # NoImage
                /\ IsInsideMask(newpos, m_ExclusionInterpolator)
        THEN Returns(w, [moved EXCEPT !.exclude = TRUE])
        ELSE IF m_AbortTracking
        THEN Returns(w, [moved EXCEPT !.aborted = TRUE])
        ELSE /\ loc' = [loc EXCEPT ![w] = moved]
             /\ pc' = [pc EXCEPT ![w] = "fs_append"]
  /\ UNCHANGED <<cfgvars, imgvars, flagvars, outvars, demovars,
                 m_EndpointConstraint, m_SeedPoints, m_StopTracking,
                 m_Progress, m_Verbose, phase, i, num_seeds, hist>>

\* BuildFibers(check): <<m_Tractogram, m_BuildFibersReady, m_BuildFibersFinished>>
\* after the call, num_threads being omp_get_num_threads().
RECURSIVE PopBack(_, _)
PopBack(seq, n) ==
  IF n <= 0 \/ seq = << >> THEN seq
  ELSE PopBack(SubSeq(seq, 1, Len(seq) - 1), n - 1)

BuildFibers(tractogram, ready, finished, check, num_threads) ==
  IF ready < num_threads /\ check
  THEN <<tractogram, ready, finished>>
  ELSE <<IF check THEN PopBack(tractogram, ready) ELSE tractogram, 0, TRUE>>

\* The oldest direction is never dropped (a variant, not the code).
PushDirection_NeverPopped(last_dirs, dir) == Append(last_dirs, dir)

\* lines 573-575: push_back(dir), pop_front() above m_NumPreviousDirections
PushDirection(last_dirs, dir) ==
  LET pushed == Append(last_dirs, dir)
  IN IF Len(pushed) > m_NumPreviousDirections THEN Tail(pushed) ELSE pushed

\* lines 573-576: the history of directions, the next direction
NextDirection(w, l) ==
  LET last_dirs == PushDirection(l.last_dirs, l.dir)
      probes == InsideTrackingRegion(l.pos) /\ last_dirs # << >>
  IN /\ \E orc \in Oracles(l.pos, last_dirs) :
          loc' = [loc EXCEPT ![w] =
                    [l EXCEPT !.last_dirs = last_dirs,
                              !.dir = GetNewDirection(l.pos, last_dirs, orc),
                              !.queried = InsideTrackingRegion(l.pos),
                              !.gnd = GetNewDirectionLocals(l.pos, last_dirs, orc),
                              !.called = @ \/ probes,
                              !.probeVecs =
                                 IF probes
                                 THEN CreateDirections(m_NumberOfSamples)
                                 ELSE @]]
     /\ pc' = [pc EXCEPT ![w] = "fs_pause"]

\* The point added without its direction (a variant, not the code).
AppendPoint_NoDirection(l) ==
  LET dir == normalize(l.dir)
  IN [l EXCEPT !.dir = dir,
               !.fib = IF l.isFront THEN <<l.pos>> \o @ ELSE Append(@, l.pos),
               !.tractLength = @ + m_StepSize]

\* lines 540-551: the point and its direction are added, the length grows
AppendPoint(l) ==
  LET dir == normalize(l.dir)
  IN [l EXCEPT !.dir = dir,
               !.fib = IF l.isFront THEN <<l.pos>> \o @ ELSE Append(@, l.pos),
               !.direction_container =
                  IF l.isFront THEN <<dir>> \o @ ELSE Append(@, dir),
               !.tractLength = @ + m_StepSize]

\* No limit on the length (a variant, not the code).
TooLong_Never(l) == FALSE

\* line 556: tractLength>m_MaxTractLength, after the point was added
TooLong(l) == l.tractLength > m_MaxTractLength

FS_Append(w) ==
  /\ phase = "tracking" /\ pc[w] = "fs_append"
  /\ LET l == AppendPoint(loc[w])
     IN IF m_LoopCheck >= 0
           /\ CheckCurvature(l.direction_container, l.isFront) > m_LoopCheck
        THEN Returns(w, l) /\ UNCHANGED <<m_Tractogram, demovars, m_Stop>>
        ELSE IF TooLong(l)
        THEN Returns(w, l) /\ UNCHANGED <<m_Tractogram, demovars, m_Stop>>
        ELSE IF m_DemoMode /\ ~m_UseOutputProbabilityMap
        THEN \* lines 561-570: the critical section of the demo mode, up to
             \* its wait for m_Stop
             LET built == BuildFibers(Append(m_Tractogram, l.fib),
                                      m_BuildFibersReady + 1,
                                      m_BuildFibersFinished, TRUE,
                                      Cardinality(Team))
             IN /\ m_Tractogram' = built[1]
                /\ m_BuildFibersReady' = built[2]
                /\ m_BuildFibersFinished' = built[3]
                /\ m_Stop' = TRUE
                /\ loc' = [loc EXCEPT ![w] = l]
                /\ pc' = [pc EXCEPT ![w] = "fs_demo"]
        ELSE /\ NextDirection(w, l)
             /\ UNCHANGED <<m_Tractogram, demovars, m_Stop>>
  /\ UNCHANGED <<cfgvars, imgvars, m_PauseTracking, m_AbortTracking,
                 m_CurrentTracts, m_OutputProbabilityMap,
                 m_EndpointConstraint, m_SeedPoints, m_StopTracking,
                 m_Progress, m_Verbose, phase, i, num_seeds, hist>>

\* line 568: while (m_Stop) {}, then lines 573-576
FS_DemoResume(w) ==
  /\ phase = "tracking" /\ pc[w] = "fs_demo"
  /\ ~m_Stop
  /\ NextDirection(w, loc[w])
  /\ UNCHANGED <<cfgvars, imgvars, flagvars, outvars, demovars,
                 m_EndpointConstraint, m_SeedPoints, m_StopTracking,
                 m_Progress, m_Verbose, phase, i, num_seeds, hist>>

\* The wait with its test inverted, while (!m_PauseTracking) {} (a variant,
\* not the code).
FS_Pause_InvertedWait(w) ==
  /\ phase = "tracking" /\ pc[w] = "fs_pause"
  /\ m_PauseTracking
  /\ IF magnitude(loc[w].dir) = 0
     THEN Returns(w, [loc[w] EXCEPT !.gnd = NoCall])
     ELSE /\ loc' = [loc EXCEPT ![w].step = @ + 1, ![w].gnd = NoCall]
          /\ pc' = [pc EXCEPT ![w] = "fs_step"]
  /\ UNCHANGED <<cfgvars, imgvars, flagvars, outvars, demovars,
                 m_EndpointConstraint, m_SeedPoints, m_StopTracking,
                 m_Progress, m_Verbose, phase, i, num_seeds, hist>>

\* lines 578-582: while (m_PauseTracking) {}, the test of the direction,
\* step++.  The wait reads the flag anew in every round.
FS_Pause(w) ==
  /\ phase = "tracking" /\ pc[w] = "fs_pause"
  /\ ~m_PauseTracking
  /\ IF magnitude(loc[w].dir) = 0
     THEN Returns(w, [loc[w] EXCEPT !.gnd = NoCall])
     ELSE /\ loc' = [loc EXCEPT ![w].step = @ + 1, ![w].gnd = NoCall]
          /\ pc' = [pc EXCEPT ![w] = "fs_step"]
  /\ UNCHANGED <<cfgvars, imgvars, flagvars, outvars, demovars,
                 m_EndpointConstraint, m_SeedPoints, m_StopTracking,
                 m_Progress, m_Verbose, phase, i, num_seeds, hist>>

(***************************************************************************)
(* Acceptance (lines 754-780) and the end of a trial (line 783).           *)
(***************************************************************************)
\* What the history keeps of an accepted fiber.
Accepted(w) ==
  [seed |-> loc[w].temp_i, fib |-> loc[w].fib,
   tractLength |-> loc[w].tractLength, exclude |-> loc[w].exclude,
   valid |-> IsValidFiber(loc[w].fib), reached |-> loc[w].reached,
   aborted |-> loc[w].aborted, stopped |-> m_StopTracking,
   trial |-> hist.trials[loc[w].temp_i]]

\* The fiber goes to the tractogram whatever the output is (a variant, not
\* the code).
AddToOutput_AlwaysTractogram(fib) ==
  <<Append(m_Tractogram, fib),
    IF m_UseOutputProbabilityMap
    THEN FiberToProbmap(fib, m_OutputProbabilityMap)
    ELSE m_OutputProbabilityMap>>

\* The fiber is counted and not stored (a variant, not the code).
AddToOutput_NotStored(fib) == <<m_Tractogram, m_OutputProbabilityMap>>

\* lines 765-768: the fiber goes to the tractogram or to the density map;
\* the tractogram and the map after it
AddToOutput(fib) ==
  IF ~m_UseOutputProbabilityMap
  THEN <<Append(m_Tractogram, fib), m_OutputProbabilityMap>>
  ELSE <<m_Tractogram, FiberToProbmap(fib, m_OutputProbabilityMap)>>

\* The limit is tested whatever its sign (a variant, not the code).
ReachedMaxNumTracts_AnySign(tracts) == tracts >= m_MaxNumTracts

\* line 770: m_MaxNumTracts > 0 && m_CurrentTracts >= m_MaxNumTracts
ReachedMaxNumTracts(tracts) ==
  m_MaxNumTracts > 0 /\ tracts >= m_MaxNumTracts

\* lines 761-769 without the test of m_StopTracking (a variant, not the code).
AcceptCritical_NoStopCheck(w) ==
  LET valid == IsValidFiber(loc[w].fib)
      tracts == IF valid = "true" THEN m_CurrentTracts + 1 ELSE m_CurrentTracts
  IN /\ valid # "throw"
     /\ IF valid = "true"
        THEN /\ m_Tractogram' = AddToOutput(loc[w].fib)[1]
             /\ m_OutputProbabilityMap' = AddToOutput(loc[w].fib)[2]
             /\ loc' = [loc EXCEPT ![w].success = TRUE]
             /\ hist' = [hist EXCEPT !.accepted = Append(@, Accepted(w))]
        ELSE UNCHANGED <<m_Tractogram, m_OutputProbabilityMap, loc, hist>>
     /\ m_CurrentTracts' = tracts
     /\ m_StopTracking' = IF valid = "true" /\ ReachedMaxNumTracts(tracts)
                          THEN TRUE ELSE m_StopTracking
     /\ UNCHANGED phase

\* lines 758-779: the critical section around IsValidFiber
AcceptCritical(w) ==
  LET valid == IsValidFiber(loc[w].fib)
      accepts == valid = "true" /\ ~m_StopTracking
      tracts == IF accepts THEN m_CurrentTracts + 1 ELSE m_CurrentTracts
  IN IF valid = "throw"
     THEN \* mitkThrow() inside the parallel region ends the run
          /\ phase' = "error"
          /\ UNCHANGED <<outvars, m_StopTracking, loc, hist>>
     ELSE /\ IF accepts
             THEN /\ m_Tractogram' = AddToOutput(loc[w].fib)[1]
                  /\ m_OutputProbabilityMap' = AddToOutput(loc[w].fib)[2]
                  /\ loc' = [loc EXCEPT ![w].success = TRUE]
                  /\ hist' = [hist EXCEPT !.accepted = Append(@, Accepted(w))]
             ELSE UNCHANGED <<m_Tractogram, m_OutputProbabilityMap, loc, hist>>
          /\ m_CurrentTracts' = tracts
          /\ m_StopTracking' = IF valid = "true" /\ ReachedMaxNumTracts(tracts)
                               THEN TRUE ELSE m_StopTracking
          /\ UNCHANGED phase

\* The tests without that of m_MinTractLength (a variant, not the code).
Acceptable_NoLengthTest(l) ==
  Len(l.fib) >= 2 /\ ~l.exclude

\* line 756: the tests made before the critical section
Acceptable(l) ==
  LET counter == Len(l.fib)
  IN l.tractLength >= m_MinTractLength /\ counter >= 2 /\ ~l.exclude

Accept(w) ==
  /\ phase = "tracking" /\ pc[w] = "accept"
  /\ IF Acceptable(loc[w])
     THEN AcceptCritical(w)
     ELSE UNCHANGED <<outvars, m_StopTracking, loc, hist, phase>>
  /\ pc' = [pc EXCEPT ![w] = "endtrial"]
  /\ UNCHANGED <<cfgvars, imgvars, flagvars, demovars,
                 m_EndpointConstraint, m_SeedPoints,
                 m_Progress, m_Verbose, i, num_seeds>>

\* The trial loop goes on after a success (a variant, not the code).
NextTrial_AfterSuccess(l) ==
  IF Mode # "PROBABILISTIC" THEN "loop" ELSE TrialLoop(l.trials + 1)

\* lines 783-786: leave the trial loop, or try the seed again
NextTrial(l) ==
  IF l.success \/ Mode # "PROBABILISTIC" THEN "loop" ELSE TrialLoop(l.trials + 1)

EndTrial(w) ==
  /\ phase = "tracking" /\ pc[w] = "endtrial"
  /\ pc' = [pc EXCEPT ![w] = NextTrial(loc[w])]
  /\ loc' = [loc EXCEPT ![w].trials =
               IF NextTrial(loc[w]) = "trial" THEN @ + 1 ELSE @]
  /\ UNCHANGED <<cfgvars, imgvars, flagvars, outvars, demovars,
                 m_EndpointConstraint, m_SeedPoints, m_StopTracking,
                 m_Progress, m_Verbose, phase, i, num_seeds, hist>>

(***************************************************************************)
(* AfterTracking, once every thread of the team has left the loop.         *)
(***************************************************************************)
AfterTracking ==
  /\ phase = "tracking"
  /\ \A w \in Team : pc[w] = "exit"
  /\ IF ~m_UseOutputProbabilityMap
     THEN LET built == BuildFibers(m_Tractogram, m_BuildFibersReady,
                                   m_BuildFibersFinished, FALSE, 1)
          IN /\ m_Tractogram' = built[1]
             /\ m_BuildFibersReady' = built[2]
             /\ m_BuildFibersFinished' = built[3]
             /\ UNCHANGED m_OutputProbabilityMap
     ELSE \* RescaleIntensityImageFilter to [0, 1]
          /\ m_OutputProbabilityMap' =
               [m_OutputProbabilityMap EXCEPT !.rescaled = TRUE]
          /\ UNCHANGED <<m_Tractogram, demovars>>
  /\ m_SeedPoints' = << >>
  /\ phase' = "finished"
  /\ hist' = [hist EXCEPT !.outputs =
                 Append(@, [count |-> m_CurrentTracts,
                            fibers |-> m_Tractogram',
                            map |-> m_OutputProbabilityMap'])]
  /\ UNCHANGED <<cfgvars, imgvars, flagvars, m_CurrentTracts,
                 m_EndpointConstraint, m_StopTracking,
                 m_Progress, m_Verbose, i, num_seeds, pc, loc>>

(***************************************************************************)
(* The caller's threads: the flags the user interface sets while the       *)
(* filter runs.                                                            *)
(***************************************************************************)
SetAbortTracking ==
  /\ "abort" \in Caller
  /\ phase \in {"configured", "tracking"}
  /\ ~m_AbortTracking
  /\ m_AbortTracking' = TRUE
  /\ UNCHANGED <<cfgvars, imgvars, m_PauseTracking, m_Stop, outvars, demovars,
                 m_EndpointConstraint, m_SeedPoints, m_StopTracking,
                 m_Progress, m_Verbose, phase, i, num_seeds, pc, loc, hist>>

SetPauseTracking ==
  /\ "pause" \in Caller
  /\ phase = "tracking"
  /\ m_PauseTracking' = ~m_PauseTracking
  /\ UNCHANGED <<cfgvars, imgvars, m_AbortTracking, m_Stop, outvars, demovars,
                 m_EndpointConstraint, m_SeedPoints, m_StopTracking,
                 m_Progress, m_Verbose, phase, i, num_seeds, pc, loc, hist>>

\* The caller runs the filter once more, on the members the last run left,
\* whether it ended or threw (GenerateData is entered again, line 688).
GenerateDataAgain ==
  /\ "rerun" \in Caller
  /\ phase \in {"finished", "error"}
  /\ Len(hist.outputs) < MaxRuns
  /\ phase' = "configured"
  /\ UNCHANGED <<cfgvars, imgvars, flagvars, outvars, demovars,
                 m_EndpointConstraint, m_SeedPoints, m_StopTracking,
                 m_Progress, m_Verbose, i, num_seeds, pc, loc, hist>>

\* The demo view has drawn the fiber and lets the thread go on.
SetStop ==
  /\ phase = "tracking"
  /\ m_Stop
  /\ m_Stop' = FALSE
  /\ UNCHANGED <<cfgvars, imgvars, m_AbortTracking, m_PauseTracking, outvars,
                 demovars, m_EndpointConstraint, m_SeedPoints, m_StopTracking,
                 m_Progress, m_Verbose, phase, i, num_seeds, pc, loc, hist>>

(***************************************************************************)
(* The configurations the runs start from.                                 *)
(***************************************************************************)
Modes == {"DETERMINISTIC", "PROBABILISTIC"}
EndpointConstraints ==
  {"NONE", "EPS_IN_TARGET", "EPS_IN_TARGET_LABELDIFF", "EPS_IN_SEED_AND_TARGET",
   "MIN_ONE_EP_IN_TARGET", "ONE_EP_IN_TARGET", "NO_EP_IN_TARGET"}

\* The options of the constructor, with the lengths scaled to the volume and
\* m_Random off; the runs below set the others.
DefaultPar ==
  [m_DemoMode |-> FALSE, m_Random |-> FALSE, m_RandomSampling |-> FALSE,
   m_UseOutputProbabilityMap |-> FALSE, m_MaxNumTracts |-> -1,
   m_TrialsPerSeed |-> MaxTrials, m_MinTractLength |-> m_StepSize,
   m_MaxTractLength |-> 100 * m_StepSize, m_MaxLength |-> 2,
   m_NumPreviousDirections |-> 1, m_LoopCheck |-> -1, m_AvoidStop |-> TRUE,
   m_OnlyForwardSamples |-> TRUE, m_UseStopVotes |-> TRUE,
   m_NumberOfSamples |-> 2, m_SeedsPerVoxel |-> 1,
   m_TrackingPriorHandler |-> NULL, m_IntroduceDirectionsFromPrior |-> TRUE,
   m_TrackingPriorAsMask |-> TRUE, m_TrackingPriorWeight |-> 2,
   m_TrackingHandler |-> Answers, Caller |-> {},
   Mode |-> "DETERMINISTIC"]

\* Images: the last voxel only; all but the last voxel; a different label in
\* every voxel.
LastVoxel == [v \in Voxels |-> IF v = NumVoxels - 1 THEN 1 ELSE 0]
NotLastVoxel == [v \in Voxels |-> IF v = NumVoxels - 1 THEN 0 ELSE 1]
Labels == [v \in Voxels |-> v + 1]

NoImages ==
  [stopping |-> NoImage, target |-> NoImage, seed |-> NoImage,
   mask |-> NoImage, exclusion |-> NoImage]

\* Several threads on the seeds of the seed image, one step either way in
\* a field that points up the axis or has no direction: a run the caller
\* may abort, runs with a tract limit and either output.
ParallelRuns ==
  {[par |-> [DefaultPar EXCEPT !.m_MaxNumTracts = r.n,
                               !.m_UseOutputProbabilityMap = r.map,
                               !.Mode = r.mode,
                               !.m_TrackingHandler = {0, 2},
                               !.Caller = r.caller],
    threads |-> MaxThreads, constraint |-> "NONE", images |-> NoImages,
    seeds |-> << >>] :
     r \in {[n |-> -1, map |-> FALSE, mode |-> "DETERMINISTIC",
             caller |-> {"abort"}],
            [n |-> MaxTracts, map |-> FALSE, mode |-> "PROBABILISTIC",
             caller |-> {}],
            [n |-> MaxTracts, map |-> TRUE, mode |-> "DETERMINISTIC",
             caller |-> {}]}}

\* One thread on one seed, longer fibers: the exclusion mask, the length
\* limits, the demo mode, the two outputs, the modes and the trials, the caller's pause and
\* abort.
SerialRuns ==
  {[par |-> [DefaultPar EXCEPT !.m_MaxLength = MaxSteps,
                               !.m_MinTractLength = 2 * m_StepSize,
                               !.m_MaxTractLength = maxlen,
                               !.m_DemoMode = demo,
                               !.m_UseOutputProbabilityMap = m,
                               !.Mode = md, !.m_TrialsPerSeed = t,
                               !.Caller = cl],
    threads |-> 1, constraint |-> "NONE",
    images |-> [NoImages EXCEPT !.exclusion = excl],
    seeds |-> <<IndexToWorld(0)>>] :
     maxlen \in {2 * m_StepSize, 100 * m_StepSize}, demo \in BOOLEAN,
     m \in BOOLEAN, excl \in {NoImage, LastVoxel, Ones}, md \in Modes, t \in {0, MaxTrials},
     cl \in {{"abort"}, {"pause"}}}

\* One thread on one seed: every endpoint constraint with and without the
\* target and seed images.
ConstraintRuns ==
  {[par |-> [DefaultPar EXCEPT !.m_MaxLength = MaxSteps],
    threads |-> 1, constraint |-> c,
    images |-> [NoImages EXCEPT !.target = tg, !.seed = sd],
    seeds |-> <<IndexToWorld(0)>>] :
     c \in EndpointConstraints, tg \in {NoImage, LastVoxel, Labels},
     sd \in {NoImage, Ones}}

\* One thread, a deterministic handler with the same direction everywhere,
\* no shuffle: the filter is run, and run again as the first run left it;
\* the seeds are given by the caller or come from the seed image.
RepeatedRuns ==
  {[par |-> [DefaultPar EXCEPT !.m_MaxLength = MaxSteps,
                               !.m_UseOutputProbabilityMap = m,
                               !.m_TrackingHandler = {h},
                               !.Caller = {"rerun"}],
    threads |-> 1, constraint |-> "NONE",
    images |-> [NoImages EXCEPT !.target = tg, !.seed = sd],
    seeds |-> sp] :
     m \in BOOLEAN, h \in {-2, 2}, tg \in {NoImage, Ones},
     sd \in {NoImage, Ones}, sp \in {<< >>, <<IndexToWorld(0)>>}}

\* One thread, one step either way: the seeds come from a seed image with
\* one voxel, under every kind of tracking mask.
SeedRuns ==
  {[par |-> [DefaultPar EXCEPT !.m_TrackingHandler = {0, 2}],
    threads |-> 1, constraint |-> "NONE",
    images |-> [NoImages EXCEPT !.seed = LastVoxel, !.mask = mk],
    seeds |-> << >>] :
     mk \in {NoImage, Ones, LastVoxel, NotLastVoxel, Zeros}}

\* One thread on one seed, any direction at every step: a target image
\* given by the caller that covers the whole volume, or none of it.
UniformTargetRuns ==
  {[par |-> [DefaultPar EXCEPT !.m_MaxLength = MaxSteps],
    threads |-> 1, constraint |-> c,
    images |-> [NoImages EXCEPT !.target = tg],
    seeds |-> <<IndexToWorld(0)>>] :
     c \in {"EPS_IN_TARGET", "NO_EP_IN_TARGET"}, tg \in {Ones, Zeros}}

\* Several threads on the seeds of the seed image, one step up the axis:
\* every fiber goes to the density map, with no limit on their number.
DensityMapRuns ==
  {[par |-> [DefaultPar EXCEPT !.m_UseOutputProbabilityMap = TRUE,
                               !.m_TrackingHandler = {2}],
    threads |-> MaxThreads, constraint |-> "NONE", images |-> NoImages,
    seeds |-> << >>]}

\* One thread on one seed, two steps up the axis: a number of samples for
\* which there is no shell.
SampleRuns ==
  {[par |-> [DefaultPar EXCEPT !.m_MaxLength = MaxSteps,
                               !.m_NumberOfSamples = n,
                               !.m_TrackingHandler = {2}],
    threads |-> 1, constraint |-> "NONE", images |-> NoImages,
    seeds |-> <<IndexToWorld(0)>>] : n \in {0, 1}}

\* One thread on one seed, two steps up the axis: a stopping mask or a
\* tracking mask that ends before the last voxel, with and without a prior
\* handler; the seed in the first or in the last voxel.
HardStopRuns ==
  {[par |-> [DefaultPar EXCEPT !.m_MaxLength = MaxSteps,
                               !.m_TrackingHandler = {2},
                               !.m_TrackingPriorHandler = ph],
    threads |-> 1, constraint |-> "NONE",
    images |-> [NoImages EXCEPT !.stopping = st, !.mask = mk],
    seeds |-> <<IndexToWorld(v)>>] :
     ph \in {NULL, "prior"}, st \in {NoImage, LastVoxel},
     mk \in {NoImage, NotLastVoxel}, v \in {0, NumVoxels - 1}}

\* One thread on one seed, one step either way: the probes are drawn at
\* random (m_Random and m_RandomSampling), with and without the samples
\* behind the last direction.
RandomSamplingRuns ==
  {[par |-> [DefaultPar EXCEPT !.m_Random = TRUE,
                               !.m_RandomSampling = TRUE,
                               !.m_OnlyForwardSamples = fw,
                               !.m_TrackingHandler = {2}],
    threads |-> 1, constraint |-> "NONE", images |-> NoImages,
    seeds |-> <<IndexToWorld(0)>>] : fw \in BOOLEAN}

\* One thread on one seed, one step either way, in a field that points up
\* the axis or has no direction: a prior handler, as a suggestion or not, as
\* a mask or not.
PriorRuns ==
  {[par |-> [DefaultPar EXCEPT !.m_TrackingPriorHandler = "prior",
                               !.m_IntroduceDirectionsFromPrior = intro,
                               !.m_TrackingPriorAsMask = asMask,
                               !.m_TrackingHandler = {0, 2}],
    threads |-> 1, constraint |-> "NONE", images |-> NoImages,
    seeds |-> <<IndexToWorld(0)>>] : intro \in BOOLEAN, asMask \in BOOLEAN}

\* One thread on one seed in a field that points up the axis: an odd
\* m_MaxLength.
OddLengthRuns ==
  {[par |-> [DefaultPar EXCEPT !.m_MaxLength = n,
                               !.m_TrackingHandler = {2}],
    threads |-> 1, constraint |-> "NONE", images |-> NoImages,
    seeds |-> <<IndexToWorld(0)>>] : n \in {1, MaxSteps - 1}}

\* One thread on one seed in a field that points up the axis: a maximum
\* tract length of one step.
ShortTractRuns ==
  {[par |-> [DefaultPar EXCEPT !.m_MaxLength = MaxSteps,
                               !.m_MaxTractLength = m_StepSize,
                               !.m_TrackingHandler = {2}],
    threads |-> 1, constraint |-> "NONE", images |-> NoImages,
    seeds |-> <<IndexToWorld(0)>>]}

\* One thread on one seed in a field that points up the axis: a history of
\* two and of three directions, two steps in each pass.
HistoryRuns ==
  {[par |-> [DefaultPar EXCEPT !.m_MaxLength = MaxSteps,
                               !.m_NumPreviousDirections = n,
                               !.m_TrackingHandler = {2}],
    threads |-> 1, constraint |-> "NONE", images |-> NoImages,
    seeds |-> <<IndexToWorld(0)>>] : n \in {2, 3}}

\* One thread on one seed, a constraint that needs the target image and no
\* target image: the run throws, and the caller starts it again.
RetriedRuns ==
  {[par |-> [DefaultPar EXCEPT !.m_MaxLength = MaxSteps, !.m_TrackingHandler = {2}, !.Caller = {"rerun"}], threads |-> 1, constraint |-> c, images |-> [NoImages EXCEPT !.seed = sd], seeds |-> <<IndexToWorld(0)>>] :
     c \in EndpointConstraints \ {"NONE"}, sd \in {NoImage, Ones}}

Configurations ==
  ParallelRuns \cup SerialRuns \cup ConstraintRuns \cup RepeatedRuns
    \cup SeedRuns \cup UniformTargetRuns \cup DensityMapRuns
    \cup SampleRuns \cup HardStopRuns \cup RandomSamplingRuns \cup PriorRuns
    \cup OddLengthRuns \cup ShortTractRuns \cup HistoryRuns
    \cup RetriedRuns

\* The filter after its constructor and the caller's setters.
Configured(c) ==
  /\ par = c.par
  /\ NumberOfThreads = c.threads
  /\ m_EndpointConstraint = c.constraint
  /\ m_StoppingRegions = c.images.stopping
  /\ m_TargetRegions = c.images.target
  /\ m_SeedImage = c.images.seed
  /\ m_MaskImage = c.images.mask
  /\ m_ExclusionRegions = c.images.exclusion
  /\ m_TargetImageSet = FALSE
  /\ m_SeedImageSet = FALSE
  /\ m_TargetInterpolator = NoImage
  /\ m_ExclusionInterpolator = NoImage
  /\ m_SeedPoints = c.seeds
  /\ m_PauseTracking = FALSE
  /\ m_AbortTracking = FALSE
  /\ m_StopTracking = FALSE
  /\ m_Stop = FALSE
  /\ m_CurrentTracts = 0
  /\ m_Progress = 0
  /\ m_Verbose = TRUE
  /\ m_Tractogram = << >>
  /\ m_OutputProbabilityMap = NoProbabilityMap
  /\ m_BuildFibersReady = 0
  /\ m_BuildFibersFinished = FALSE
  /\ phase = "configured"
  /\ i = 0
  /\ num_seeds = 0
  /\ pc = [w \in Threads |-> "idle"]
  /\ loc = [w \in Threads |-> NoLocals]
  /\ hist = [tracked |-> << >>, trials |-> << >>, accepted |-> << >>,
             outputs |-> << >>, generated |-> FALSE,
             \* what the caller has set
             user |-> [constraint |-> c.constraint,
                       target |-> c.images.target # NoImage,
                       seed |-> c.images.seed # NoImage,
                       mask |-> c.images.mask # NoImage,
                       stopping |-> c.images.stopping # NoImage,
                       seeds |-> c.seeds]]

Init == \E c \in Configurations : Configured(c)

Next ==
  \/ StartTracking
  \/ \E w \in Threads : LoopCheck(w)
  \/ \E w \in Threads : TakeSeed(w)
  \/ \E w \in Threads : CheckSeed(w)
  \/ \E w \in Threads : StartTrial(w)
  \/ \E w \in Threads : FS_Step(w)
  \/ \E w \in Threads : FS_Append(w)
  \/ \E w \in Threads : FS_DemoResume(w)
  \/ \E w \in Threads : FS_Pause(w)
  \/ \E w \in Threads : Accept(w)
  \/ \E w \in Threads : EndTrial(w)
  \/ AfterTracking
  \/ SetAbortTracking
  \/ SetPauseTracking
  \/ SetStop
  \/ GenerateDataAgain

Spec == Init /\ [][Next]_vars

(***************************************************************************)
(* The run under fair scheduling, the demo mode off.  Every thread of the  *)
(* team goes on when it can; the wait of line 578 is a loop that polls     *)
(* m_PauseTracking, so a thread leaves it when the flag is clear again and *)
(* again; the caller clears m_PauseTracking whenever it is set; the        *)
(* parallel region is left when every thread has left the loop.            *)
(***************************************************************************)
\* Several threads on the seeds of the seed image in a field that points up
\* the axis, a limit of tracts that is reached in the middle of the run,
\* and a caller that pauses and aborts.
FairRuns ==
  {[par |-> [DefaultPar EXCEPT !.m_MaxNumTracts = MaxTracts,
                               !.m_TrackingHandler = {2},
                               !.Caller = {"abort", "pause"}],
    threads |-> MaxThreads, constraint |-> "NONE", images |-> NoImages,
    seeds |-> << >>]}

FairInit == \E c \in FairRuns : Configured(c)

\* The steps of thread w but the wait of line 578.
WorkerStep(w) ==
  \/ LoopCheck(w)
  \/ TakeSeed(w)
  \/ CheckSeed(w)
  \/ StartTrial(w)
  \/ FS_Step(w)
  \/ FS_Append(w)
  \/ Accept(w)
  \/ EndTrial(w)

\* The caller clears the flag it has set.
ClearPauseTracking == m_PauseTracking /\ SetPauseTracking

FairNext ==
  \/ StartTracking
  \/ \E w \in Threads : WorkerStep(w)
  \/ \E w \in Threads : FS_Pause(w)
  \/ AfterTracking
  \/ SetAbortTracking
  \/ SetPauseTracking

\* A step of the run: of a thread of the team, or the end of the parallel
\* region.
RunStep ==
  \/ \E w \in Threads : WorkerStep(w) \/ FS_Pause(w)
  \/ AfterTracking

\* The run goes on when it can again and again (a thread that polls the
\* flag sees it clear), and the caller clears the flag it has set.  This is
\* less than the fairness of every single thread.
Fairness == SF_vars(RunStep) /\ WF_vars(ClearPauseTracking)

FairSpec == FairInit /\ [][FairNext]_vars /\ Fairness

(***************************************************************************)
(* The progress report of a small run.  The code reports the progress      *)
(* every num_seeds/100 seeds, and only when that interval is 100 seeds or  *)
(* more (lines 697-699): from 10,000 seeds on.  Here the same code runs    *)
(* with the interval num_seeds/ReportParts and the least interval          *)
(* LeastInterval, so that the seed lists of the model are reported:        *)
(* several threads on the seeds of the seed image.                         *)
(***************************************************************************)
ReportParts == 1
LeastInterval == 2

ProgressStartTracking == StartTrackingWith(ReportParts, LeastInterval)

ProgressCheckSeed(w) == CheckSeedWith(w, ReportParts)

ProgressInit == \E c \in ParallelRuns : Configured(c)

ProgressNext ==
  \/ ProgressStartTracking
  \/ \E w \in Threads : LoopCheck(w)
  \/ \E w \in Threads : TakeSeed(w)
  \/ \E w \in Threads : ProgressCheckSeed(w)
  \/ \E w \in Threads : StartTrial(w)
  \/ \E w \in Threads : FS_Step(w)
  \/ \E w \in Threads : FS_Append(w)
  \/ \E w \in Threads : FS_Pause(w)
  \/ \E w \in Threads : Accept(w)
  \/ \E w \in Threads : EndTrial(w)
  \/ AfterTracking
  \/ SetAbortTracking

ProgressSpec == ProgressInit /\ [][ProgressNext]_vars

(***************************************************************************)
(* Properties.                                                             *)
(***************************************************************************)
\* The thread is inside the trial loop of a seed it was given.
InTrial(w) ==
  pc[w] \in {"trial", "fs_step", "fs_append", "fs_demo", "fs_pause", "accept",
             "endtrial"}

\* The thread has a finished fiber that passes every test of acceptance.
Completed(w) ==
  Acceptable(loc[w]) /\ IsValidFiber(loc[w].fib) = "true"

AcceptedFibers == [k \in DOMAIN hist.accepted |-> hist.accepted[k].fib]

RECURSIVE ProbmapOf(_, _)
ProbmapOf(fibers, k) ==
  IF k = 0 THEN [count |-> Zeros, rescaled |-> FALSE]
  ELSE FiberToProbmap(fibers[k], ProbmapOf(fibers, k - 1))

\* The output holds the accepted fibers, in the order of their acceptance,
\* and nothing else.
OutputIsAccepted ==
  phase \in {"tracking", "finished"} =>
    /\ m_CurrentTracts = Len(hist.accepted)
    /\ ~m_UseOutputProbabilityMap => m_Tractogram = AcceptedFibers
    /\ m_UseOutputProbabilityMap =>
         /\ m_Tractogram = << >>
         /\ m_OutputProbabilityMap.count =
              ProbmapOf(AcceptedFibers, Len(hist.accepted)).count

\* C1: with m_MaxNumTracts = N > 0 and any number of threads, the counter of
\* accepted tracts, the number of accepted fibers and the size of the
\* tractogram never exceed N.
C1_NeverMoreThanMaxNumTracts ==
  m_MaxNumTracts > 0 =>
    /\ m_CurrentTracts <= m_MaxNumTracts
    /\ Len(hist.accepted) <= m_MaxNumTracts
    /\ Len(m_Tractogram) <= m_MaxNumTracts

\* N fibers are accepted and a thread comes to the acceptance with one more
\* fiber that passes every test.
C1_Witness ==
  /\ m_MaxNumTracts > 0 /\ m_CurrentTracts = m_MaxNumTracts
  /\ NumberOfThreads > 1
  /\ \E w \in Team : pc[w] = "accept" /\ Completed(w)

Excluded(p) ==
  m_ExclusionRegions # NoImage /\ IsInsideMask(p, m_ExclusionInterpolator)

\* C2: no accepted fiber comes from a trial of which a position (the seed
\* and every position computed forward or backward) lies in the exclusion
\* mask; the output holds accepted fibers only, so no part of such a trial
\* is in it.
C2_ExcludedTrialAddsNothing ==
  /\ \A k \in DOMAIN hist.accepted :
       \A p \in hist.accepted[k].reached : ~Excluded(p)
  /\ OutputIsAccepted

\* A trial has run into the exclusion mask with a segment of two points or
\* more, and has passed the acceptance without being added.
C2_Witness ==
  \E w \in Team :
    /\ pc[w] = "endtrial" /\ loc[w].exclude /\ ~loc[w].success
    /\ Len(loc[w].fib) >= 2
    /\ \E p \in loc[w].reached : Excluded(p)

\* C3: no fiber of which a pass was cut short by m_AbortTracking is accepted.
C3_AbortedFiberNotAccepted ==
  \A k \in DOMAIN hist.accepted : ~hist.accepted[k].aborted

\* C4: with m_StopTracking set, no step of the run changes the counter of
\* accepted tracts, the tractogram or the fibers counted in the probability
\* map.
C4_NoChangeAfterStop ==
  [][(phase = "tracking" /\ m_StopTracking) =>
       /\ m_CurrentTracts' = m_CurrentTracts
       /\ m_Tractogram' = m_Tractogram
       /\ m_OutputProbabilityMap'.count = m_OutputProbabilityMap.count
       /\ hist'.accepted = hist.accepted]_vars

\* A trial in flight when m_StopTracking was set has run to its end with a
\* fiber that passes every test, and its acceptance was skipped.
C4_Witness ==
  /\ m_StopTracking
  /\ \E w \in Team : pc[w] = "endtrial" /\ Completed(w) /\ ~loc[w].success

\* C5: every index is tracked at most once, the threads in a trial hold
\* different indices inside [0, num_seeds), and a run that ends without
\* m_StopTracking has tracked every index once.
C5_EverySeedOnce ==
  /\ \A s \in DOMAIN hist.tracked : hist.tracked[s] <= 1
  /\ phase = "tracking" =>
       /\ \A w \in Team : InTrial(w) => loc[w].temp_i \in 0 .. (num_seeds - 1)
       /\ \A w1, w2 \in Team :
            (w1 # w2 /\ InTrial(w1) /\ InTrial(w2)) => loc[w1].temp_i # loc[w2].temp_i
  /\ (phase = "finished" /\ ~m_StopTracking) =>
       \A s \in 0 .. (num_seeds - 1) : hist.tracked[s] = 1

\* Several threads have drawn from the cursor, one of them an index past
\* the last seed, and the run has ended without m_StopTracking.
C5_Witness ==
  /\ phase = "finished" /\ ~m_StopTracking
  /\ NumberOfThreads > 1 /\ num_seeds > 1 /\ i > num_seeds
  /\ \A s \in 0 .. (num_seeds - 1) : hist.tracked[s] = 1

\* C6: once m_AbortTracking is set, the loop of the seeds gives no further
\* seed to a thread: no thread tracks an index for which it made the test
\* of the loop and drew from the cursor with m_AbortTracking already set.
C6_NoDispatchAfterAbort ==
  \A w \in Team : (phase = "tracking" /\ InTrial(w)) => ~loc[w].late

\* The accepted fibers of seed s, and whether its trial loop is over.
AcceptedOf(s) == {k \in DOMAIN hist.accepted : hist.accepted[k].seed = s}
TrialsOver(s) ==
  /\ hist.tracked[s] >= 1
  /\ \A w \in Team : ~(InTrial(w) /\ loc[w].temp_i = s)

\* C7: a tracked seed gets exactly one trial with a deterministic handler,
\* whatever m_TrialsPerSeed is; with a probabilistic handler it gets at most
\* m_TrialsPerSeed trials, at most one of them is accepted and none is
\* started after it.
C7_TrialsOfASeed ==
  \A s \in DOMAIN hist.tracked :
    /\ Mode = "DETERMINISTIC" =>
         /\ hist.trials[s] <= 1
         /\ TrialsOver(s) => hist.trials[s] = 1
    /\ Mode = "PROBABILISTIC" => hist.trials[s] <= m_TrialsPerSeed
    /\ Cardinality(AcceptedOf(s)) <= 1
    /\ \A k \in AcceptedOf(s) : hist.trials[s] = hist.accepted[k].trial

\* C8: every accepted fiber had, when it was added, a length of at least
\* m_MinTractLength, two points or more, no exclusion and a true answer of
\* IsValidFiber; the output holds the accepted fibers and nothing else.
C8_OutputPassedEveryTest ==
  /\ \A k \in DOMAIN hist.accepted :
       /\ hist.accepted[k].tractLength >= m_MinTractLength
       /\ Len(hist.accepted[k].fib) >= 2
       /\ ~hist.accepted[k].exclude
       /\ hist.accepted[k].valid = "true"
  /\ OutputIsAccepted

\* A run with an endpoint constraint and a target image has ended with a
\* fiber in its output.
C8_Witness ==
  /\ phase = "finished" /\ m_EndpointConstraint # "NONE" /\ m_TargetImageSet
  /\ m_Tractogram # << >> /\ hist.accepted # << >>

\* C9: once the forward pass is over and the seed is put in front (during
\* the backward pass and at the acceptance), the fiber has one point more
\* than the container has directions.
C9_OnePointMoreThanDirections ==
  \A w \in Team :
    (/\ phase = "tracking"
     /\ \/ pc[w] = "accept"
        \/ pc[w] \in {"fs_step", "fs_append", "fs_demo", "fs_pause"} /\ loc[w].isFront)
    => Len(loc[w].fib) = Len(loc[w].direction_container) + 1

\* The forward pass has added points and is over; the backward pass starts.
C9_Witness ==
  \E w \in Team :
    /\ pc[w] = "fs_step" /\ loc[w].isFront /\ loc[w].step = 0
    /\ Len(loc[w].fib) >= 3

Gap(fib, k) == Abs(fib[k + 1] - fib[k])

\* C10 as stated: in every fiber that comes out of the two passes, every
\* two consecutive points are one m_StepSize apart.
C10_EveryGapIsOneStep ==
  \A w \in Team :
    (phase = "tracking" /\ pc[w] = "accept") =>
      \A k \in 1 .. (Len(loc[w].fib) - 1) : Gap(loc[w].fib, k) = m_StepSize

\* C10: in every fiber that comes out of the two passes, two consecutive
\* points are one m_StepSize apart, except the seed and its neighbour on
\* either side, which are half of m_StepSize apart.
C10_HalfStepAtTheSeed ==
  \A w \in Team :
    (phase = "tracking" /\ pc[w] = "accept") =>
      \A k \in 1 .. (Len(loc[w].fib) - 1) :
        Gap(loc[w].fib, k) =
          IF loc[w].worldPos \in {loc[w].fib[k], loc[w].fib[k + 1]}
          THEN m_StepSize \div 2 ELSE m_StepSize

\* A fiber with points on both sides of the seed and a full step in it.
C10_Witness ==
  \E w \in Team :
    /\ pc[w] = "accept" /\ Len(loc[w].fib) >= 4
    /\ loc[w].fib[1] # loc[w].worldPos
    /\ loc[w].fib[Len(loc[w].fib)] # loc[w].worldPos

\* C11: with a deterministic handler, no shuffle and one thread, a second
\* run of the filter with the configuration unchanged gives the count, the
\* fibers and the map of the first run.
C11_SecondRunSameOutput ==
  (/\ Mode = "DETERMINISTIC" /\ ~m_Random /\ NumberOfThreads = 1
   /\ Cardinality(m_TrackingHandler) = 1
   /\ Len(hist.outputs) >= 2)
  => hist.outputs[2] = hist.outputs[1]

\* The voxels of the seed image with a positive value.
SeedVoxels == {v \in Voxels : m_SeedImage[v] > 0}

\* The seeds come from a seed image of the caller with one positive voxel,
\* one seed per voxel.
OneSeedVoxel ==
  /\ phase = "tracking" /\ hist.generated /\ m_SeedImageSet
  /\ m_SeedsPerVoxel = 1 /\ Cardinality(SeedVoxels) = 1

\* C12 as stated: one positive voxel in the seed image, one seed per voxel
\* and no seeds of the caller give one seed, the centre of the voxel,
\* whatever the tracking mask.
C12_OneSeedWhateverTheMask ==
  OneSeedVoxel =>
    \A v \in SeedVoxels : m_SeedPoints = <<IndexToWorld(v)>>

\* C12: one positive voxel in the seed image, one seed per voxel and no
\* seeds of the caller give one seed, the centre of the voxel, when that
\* centre is inside the tracking mask, and no seed when it is not.
C12_OneSeedInsideTheMask ==
  OneSeedVoxel =>
    \A v \in SeedVoxels :
      m_SeedPoints = IF IsInsideMask(IndexToWorld(v), m_MaskInterpolator)
                     THEN <<IndexToWorld(v)>> ELSE << >>

\* The one seed is generated under a tracking mask of the caller that does
\* not hold every voxel.
C12_Witness ==
  /\ OneSeedVoxel /\ Len(m_SeedPoints) = 1
  /\ \E v \in Voxels : m_MaskImage[v] = 0

\* A thread that has just left the acceptance of line 756-779 with a fiber
\* that passed the tests of line 756, the tract limit not reached.
Candidate(w) ==
  /\ phase = "tracking" /\ pc[w] = "endtrial"
  /\ Acceptable(loc[w]) /\ ~m_StopTracking

InsideVolume(pos) == IsInsideBuffer(WorldToIndex(pos))

TargetCoversVolume ==
  /\ m_EndpointConstraint = "EPS_IN_TARGET"
  /\ m_TargetImageSet /\ m_TargetInterpolator = Ones

\* C13 (as stated): with EPS_IN_TARGET and a target image given by the caller
\* that is 1 in every voxel, every fiber of sufficient length with two points
\* or more that was not excluded is accepted, wherever its end points lie.
C13_EveryCandidateAccepted ==
  \A w \in Team : TargetCoversVolume /\ Candidate(w) => loc[w].success

\* C13 (amended): under the same configuration such a fiber is accepted
\* exactly when its two end points lie inside the volume; a fiber whose
\* first or last point is outside the volume is rejected.
C13_AcceptedIffEndsInVolume ==
  \A w \in Team :
    TargetCoversVolume /\ Candidate(w) =>
      (loc[w].success <=> \A k \in {1, Len(loc[w].fib)} :
                             InsideVolume(loc[w].fib[k]))

C13_Witness ==
  /\ TargetCoversVolume
  /\ \E w \in Team : Candidate(w) /\ loc[w].success

TargetCoversNothing ==
  /\ m_EndpointConstraint = "NO_EP_IN_TARGET"
  /\ m_TargetImageSet /\ m_TargetInterpolator = Zeros

\* C14: with NO_EP_IN_TARGET and a target image given by the caller that is
\* 0 in every voxel, every fiber of sufficient length with two points or
\* more that was not excluded is accepted.
C14_EmptyTargetRejectsNothing ==
  \A w \in Team : TargetCoversNothing /\ Candidate(w) => loc[w].success

C14_Witness ==
  /\ TargetCoversNothing
  /\ \E w \in Team :
       /\ Candidate(w) /\ loc[w].success
       /\ InsideVolume(loc[w].fib[1])
       /\ ~InsideVolume(loc[w].fib[Len(loc[w].fib)])

\* C15: a constraint that needs a target or seed image that was not given
\* is reported by BeforeTracking, before any thread takes a seed, and never
\* by IsValidFiber inside the parallel region: the run fails only on its
\* way out of the configured state, and once it is tracking no thread that
\* reaches line 761 has IsValidFiber throw.
C15_ThrowOnlyBeforeTracking ==
  [][/\ phase' = "error" => phase = "configured"
     /\ (phase = "tracking" =>
           \A w \in Team : pc[w] = "accept" =>
             IsValidFiber(loc[w].fib) # "throw")']_vars

C15_Witness ==
  /\ m_EndpointConstraint # "NONE"
  /\ \E w \in Team : Candidate(w) /\ IsValidFiber(loc[w].fib) = "false"

\* The voxels of the volume in which the fiber has a point.
VisitedVoxels(fib) ==
  {v \in Voxels : \E k \in DOMAIN fib : WorldToIndex(fib[k]) = v}

\* C16: when a fiber is accepted in density-map mode, the counter of every
\* voxel in which the fiber has a point goes up by exactly one and the
\* counter of every other voxel stays as it was, whatever the order in which
\* the fiber visits the voxels.
C16_OnceForEveryVisitedVoxel ==
  [][\A w \in Team :
       (/\ m_UseOutputProbabilityMap /\ phase = "tracking"
        /\ pc[w] = "accept" /\ pc'[w] = "endtrial" /\ loc'[w].success)
       => \A v \in Voxels :
            m_OutputProbabilityMap'.count[v] =
              m_OutputProbabilityMap.count[v]
                + (IF v \in VisitedVoxels(loc[w].fib) THEN 1 ELSE 0)]_vars

\* The increments of one fiber, from a last-visited voxel of its own.
IncrementsOf(fib) == FiberToProbmapFrom(fib, 1, 0, Zeros)

RECURSIVE SumOfIncrements(_, _)
SumOfIncrements(v, k) ==
  IF k = 0 THEN 0
  ELSE SumOfIncrements(v, k - 1) + IncrementsOf(hist.accepted[k].fib)[v]

\* C17: with several threads that finish fibers at the same time, the
\* tractogram holds every accepted fiber exactly once (one entry for each
\* acceptance, in the order of the acceptances), and in density-map mode
\* the count of every voxel before the rescaling is the sum of the
\* increments of all accepted fibers, each counted from a last-visited voxel
\* of its own: no update is lost.
C17_NoLostUpdate ==
  (phase \in {"tracking", "finished"} /\ NumberOfThreads > 1) =>
    IF m_UseOutputProbabilityMap
    THEN \A v \in Voxels :
           m_OutputProbabilityMap.count[v] =
             SumOfIncrements(v, Len(hist.accepted))
    ELSE /\ Len(m_Tractogram) = Len(hist.accepted)
         /\ \A k \in DOMAIN hist.accepted :
              m_Tractogram[k] = hist.accepted[k].fib

\* Two threads are at the acceptance at the same time, a fiber is in the
\* map already.
C17_Witness ==
  /\ m_UseOutputProbabilityMap /\ phase = "tracking"
  /\ \E v \in Voxels : m_OutputProbabilityMap.count[v] >= 1
  /\ \E w1, w2 \in Team :
       /\ w1 # w2 /\ pc[w1] = "endtrial" /\ loc[w1].success
       /\ pc[w2] = "accept" /\ Completed(w2)

\* C18: as long as m_PauseTracking stays set every thread waits: no step of
\* the run adds a point to a fiber or accepts a fiber, and no thread's
\* locals change, so that each thread goes on from the state it was paused
\* in when the flag is cleared.
C18_NothingMovesWhilePaused ==
  [][(phase = "tracking" /\ m_PauseTracking /\ m_PauseTracking')
     => /\ \A w \in Team : Len(loc'[w].fib) <= Len(loc[w].fib)
        /\ hist'.accepted = hist.accepted
        /\ m_CurrentTracts' = m_CurrentTracts]_vars

C19_EmptyShellUsed ==
  \E w \in Team :
    loc[w].called /\ m_NumberOfSamples < 2 /\ loc[w].probeVecs = << >>

\* The position of the thread's last call of GetNewDirection, when the
\* thread has just come back from it: the seed at the start of a trial,
\* the new point in FollowStreamline.
LastAsked(w) ==
  IF pc[w] = "fs_pause" THEN <<loc[w].pos, loc[w].dir>>
  ELSE <<loc[w].worldPos, loc[w].startDir>>

Returned(w) ==
  /\ phase = "tracking"
  /\ \/ pc[w] = "fs_pause"
     \/ pc[w] = "endtrial" /\ loc[w].fib = << >>

\* C20: GetNewDirection returns the zero vector for a position that is not
\* in the tracking mask or is in the stopping mask, without a call of
\* ProposeDirection, with and without a prior handler.
C20_HardStopIsZero ==
  \A w \in Team :
    (/\ Returned(w)
     /\ \/ ~IsInsideMask(LastAsked(w)[1], m_MaskInterpolator)
        \/ IsInsideMask(LastAsked(w)[1], m_StopInterpolator))
    => LastAsked(w)[2] = 0 /\ ~loc[w].queried

\* A thread has come back from GetNewDirection at a point in the stopping
\* mask and inside the tracking mask, with a prior handler set.
C20_Witness ==
  /\ m_TrackingPriorHandler # NULL
  /\ \E w \in Team :
       /\ Returned(w) /\ pc[w] = "fs_pause"
       /\ IsInsideMask(loc[w].pos, m_MaskInterpolator)
       /\ IsInsideMask(loc[w].pos, m_StopInterpolator)
       /\ loc[w].dir = 0 /\ Len(loc[w].fib) >= 2

\* A thread has just come back from a call of GetNewDirection made in
\* FollowStreamline that passed the test of the masks.
Probed(w) ==
  phase = "tracking" /\ pc[w] = "fs_pause" /\ loc[w].queried

\* The sum of the stop votes of the passes of a trace.
RECURSIVE VotesOf(_, _)
VotesOf(trace, k) ==
  IF k = 0 THEN 0 ELSE VotesOf(trace, k - 1) + trace[k].votes

RECURSIVE VotersOf(_, _)
VotersOf(trace, k) ==
  IF k = 0 THEN 0
  ELSE VotersOf(trace, k - 1)
         + (IF trace[k].is_stop_voter /\ ~trace[k].skipped THEN 1 ELSE 0)

C22_OneOutputIsWritten ==
  [][phase' \in {"tracking", "finished"} =>
       /\ m_UseOutputProbabilityMap' = m_UseOutputProbabilityMap
       /\ IF m_UseOutputProbabilityMap
          THEN m_Tractogram' = << >>
          ELSE m_OutputProbabilityMap' = m_OutputProbabilityMap]_vars

\* A run in demo mode has put a fiber into the density map.
C22_Witness ==
  /\ phase = "finished" /\ m_UseOutputProbabilityMap /\ m_DemoMode
  /\ m_CurrentTracts >= 1 /\ m_Tractogram = << >>
  /\ m_OutputProbabilityMap.rescaled

\* A run has ended with fibers in the tractogram and no density map.
C22_TractogramOnly ==
  /\ phase = "finished" /\ ~m_UseOutputProbabilityMap
  /\ m_Tractogram # << >> /\ m_OutputProbabilityMap = NoProbabilityMap

\* The passes of the probe loop of the call a thread has just come back
\* from.
Passes(w) ==
  IF Probed(w)
  THEN {loc[w].gnd.acc.trace[k] : k \in DOMAIN loc[w].gnd.acc.trace}
  ELSE {}

\* A pass whose probe found no direction and that made the recovery probe
\* of lines 440-475; the handler is asked at another position, or it draws
\* its answers at random.
Recovering(e) ==
  /\ e.recovery /\ e.is_stop_voter
  /\ e.d2 # e.d \/ Mode = "PROBABILISTIC"

\* C23: with m_AvoidStop, a stop voter whose probe finds no direction adds
\* a stop vote only if its recovery probe finds none either; if the
\* recovery probe finds a direction, the deflected offset and that
\* direction are added and stop_votes stays as it was.
C23_VoteOnlyIfRecoveryFails ==
  \A w \in Team : \A e \in Passes(w) :
    Recovering(e) =>
      IF magnitude(e.tempDir2) > 0
      THEN e.votes = 0 /\ e.added = e.d2 * m_DeflectionMod + e.tempDir2
      ELSE e.votes = 1 /\ e.added = 0

\* C24: with m_OnlyForwardSamples, a probe whose offset has a negative dot
\* product with the last direction is skipped: ProposeDirection is not
\* called at it, it is no possible stop voter and adds nothing, with the
\* probes of the point shell and with the probes drawn at random alike.
C24_BackwardProbesSkipped ==
  \A w \in Team : \A e \in Passes(w) :
    (m_OnlyForwardSamples /\ e.dot < 0) =>
      /\ e.skipped /\ ~e.asked /\ ~e.asked2
      /\ ~e.is_stop_voter /\ e.votes = 0 /\ e.added = 0

\* C25: with a prior handler and m_TrackingPriorAsMask, GetNewDirection
\* returns the zero vector wherever the prior handler proposes no direction,
\* whether the direction of the probe loop was valid or not and with or
\* without m_IntroduceDirectionsFromPrior.
C25_NoPriorNoDirection ==
  \A w \in Team :
    (/\ m_TrackingPriorHandler # NULL /\ m_TrackingPriorAsMask
     /\ phase = "tracking" /\ magnitude(loc[w].gnd.prior) = 0)
    => /\ loc[w].gnd.direction = 0
       /\ pc[w] = "fs_pause" => loc[w].dir = 0

\* The direction of the probe loop was valid, the prior handler proposed
\* none and is no suggestion; the direction returned is zero.
C25_Witness ==
  /\ m_TrackingPriorHandler # NULL /\ m_TrackingPriorAsMask
  /\ ~m_IntroduceDirectionsFromPrior
  /\ \E w \in Team :
       /\ Probed(w) /\ loc[w].gnd.valid
       /\ loc[w].gnd.prior = 0 /\ loc[w].dir = 0

\* The direction of the probe loop was not valid and the prior handler is
\* a suggestion that proposed nothing.
C25_InvalidAndNoPrior ==
  /\ m_TrackingPriorHandler # NULL /\ m_TrackingPriorAsMask
  /\ m_IntroduceDirectionsFromPrior
  /\ \E w \in Team :
       /\ Probed(w) /\ ~loc[w].gnd.valid
       /\ loc[w].gnd.prior = 0 /\ loc[w].dir = 0

\* The points of a fiber in the opposite order.
Reversed(fib) == [k \in DOMAIN fib |-> fib[Len(fib) + 1 - k]]

\* C26: with ONE_EP_IN_TARGET and a target image, a fiber that comes to
\* IsValidFiber is accepted exactly when one of its two end points, and one
\* only, lies in the target image, and IsValidFiber gives the same answer
\* for the fiber with its points in the opposite order.
C26_ExactlyOneEndInTarget ==
  \A w \in Team :
    (m_EndpointConstraint = "ONE_EP_IN_TARGET" /\ m_TargetImageSet
     /\ Candidate(w))
    => LET fib == loc[w].fib
           frontIn == IsInsideMask(fib[1], m_TargetInterpolator)
           backIn == IsInsideMask(fib[Len(fib)], m_TargetInterpolator)
       IN /\ loc[w].success <=> (frontIn # backIn)
          /\ IsValidFiber(Reversed(fib)) = IsValidFiber(fib)

\* C27: BeforeTracking changes the endpoint constraint only if it is NONE:
\* NONE becomes EPS_IN_SEED_AND_TARGET if the caller has given a target and
\* a seed image, EPS_IN_TARGET if the caller has given a target image only,
\* and stays NONE if the caller has given no target image; any other
\* constraint is left as it is.
C27_ConstraintFromGivenImages ==
  [][(phase = "configured" /\ phase' # "configured") =>
       m_EndpointConstraint' =
         IF m_EndpointConstraint = "NONE" /\ hist.user.target /\ hist.user.seed
         THEN "EPS_IN_SEED_AND_TARGET"
         ELSE IF m_EndpointConstraint = "NONE" /\ hist.user.target
         THEN "EPS_IN_TARGET"
         ELSE m_EndpointConstraint]_vars

\* C28: a pass of FollowStreamline adds at most floor(m_MaxLength / 2)
\* points, so that a fiber never has more than 2 * floor(m_MaxLength / 2) + 1
\* points, whatever the handler answers: during the forward pass, during
\* the backward pass, and in the output.
C28_AtMostHalfMaxLengthEachWay ==
  LET half == m_MaxLength \div 2
  IN /\ \A w \in Team :
          InTrial(w) =>
            /\ Len(loc[w].fib) <= 2 * half + 1
            /\ (pc[w] \in {"fs_step", "fs_append", "fs_demo", "fs_pause"}
                 /\ ~loc[w].isFront) => Len(loc[w].fib) <= half
     /\ \A k \in DOMAIN hist.accepted :
          Len(hist.accepted[k].fib) <= 2 * half + 1

\* A fiber of 2 * floor(m_MaxLength / 2) + 1 points is accepted, m_MaxLength
\* being odd.
C28_Witness ==
  /\ m_MaxLength % 2 = 1
  /\ \E k \in DOMAIN hist.accepted :
       Len(hist.accepted[k].fib) = 2 * (m_MaxLength \div 2) + 1

\* Thread w adds a point to its fiber (lines 541-551).
Appends(w) ==
  phase = "tracking" /\ pc[w] = "fs_append" /\ pc'[w] # "fs_append"

\* C29 (as stated): no point is added to a fiber whose accumulated length
\* is above m_MaxTractLength already, in the forward pass and in the
\* backward pass that goes on from the length of the forward pass.
C29_NoPointBeyondMaxTractLength ==
  [][\A w \in Team :
       Appends(w) => loc[w].tractLength <= m_MaxTractLength]_vars

\* C29 (amended): a pass ends with the point that brings or finds the
\* length above m_MaxTractLength.  The forward pass adds no point to a
\* fiber whose length is above m_MaxTractLength; the backward pass, which
\* goes on from the length of the forward pass, adds its first point to
\* such a fiber and ends with it.
C29_OnePointBeyondMaxTractLength ==
  [][\A w \in Team :
       (Appends(w) /\ loc[w].tractLength > m_MaxTractLength)
       => /\ loc[w].isFront /\ loc[w].step = 0
          /\ pc'[w] = "accept"
          /\ loc'[w].tractLength = loc[w].tractLength + m_StepSize]_vars

\* The backward pass has added a point to a fiber that was too long and the
\* fiber is accepted.
C29_Witness ==
  \E k \in DOMAIN hist.accepted :
    hist.accepted[k].tractLength >= m_MaxTractLength + 2 * m_StepSize

\* GetNewDirection was called from FollowStreamline by thread w and has
\* returned (line 576).
CalledFromFollowStreamline(w) == phase = "tracking" /\ pc[w] = "fs_pause"

\* The direction of the step thread w has just taken: the one stored with
\* the last point of this pass (lines 539-550).
DirectionOfLastStep(w) ==
  IF loc[w].isFront
  THEN loc[w].direction_container[1]
  ELSE loc[w].direction_container[Len(loc[w].direction_container)]

\* C30: with m_NumPreviousDirections = N >= 1, the history given to every
\* call of GetNewDirection from FollowStreamline has N entries, the last is
\* the direction of the step just taken, the entries from before the pass
\* began are zero vectors, and the history never has more than N entries.
C30_HistoryOfNDirections ==
  \A w \in Team :
    /\ phase = "tracking" => Len(loc[w].last_dirs) <= m_NumPreviousDirections
    /\ CalledFromFollowStreamline(w) =>
         LET olddirs == loc[w].gnd.olddirs
             N == m_NumPreviousDirections
         IN /\ N >= 1
            /\ Len(olddirs) = N
            /\ olddirs = loc[w].last_dirs
            /\ olddirs[N] = DirectionOfLastStep(w)
            /\ magnitude(olddirs[N]) > 0
            /\ \A k \in 1 .. N :
                 k <= N - (loc[w].step + 1) => olddirs[k] = 0

\* A history of two directions is full on the second step of a pass, after
\* the zero vector was dropped; a history of three still begins with one.
C30_Witness ==
  \E w \in Team :
    /\ CalledFromFollowStreamline(w) /\ loc[w].step = 1
    /\ \/ /\ m_NumPreviousDirections = 2
          /\ loc[w].gnd.olddirs[1] # 0 /\ loc[w].gnd.olddirs[2] # 0
       \/ /\ m_NumPreviousDirections = 3
          /\ loc[w].gnd.olddirs[1] = 0 /\ loc[w].gnd.olddirs[2] # 0

\* C31: the counter of accepted tracts and m_StopTracking change together
\* in one critical section.  With m_MaxNumTracts = N > 0, in every state of
\* the run outside that critical section m_StopTracking is set exactly when
\* m_CurrentTracts >= N; with m_MaxNumTracts <= 0 it is never set.
C31_StopIffMaxNumTracts ==
  phase \in {"tracking", "finished"} =>
    IF m_MaxNumTracts > 0
    THEN m_StopTracking <=> m_CurrentTracts >= m_MaxNumTracts
    ELSE ~m_StopTracking

\* The limit was reached by one thread while another thread of the team is
\* in a trial.
C31_Witness ==
  /\ phase = "tracking" /\ m_MaxNumTracts > 0
  /\ m_StopTracking /\ m_CurrentTracts >= m_MaxNumTracts
  /\ \E w \in Team : InTrial(w) /\ ~loc[w].success

\* Without a limit fibers are accepted and tracking goes on.
C31_NoLimit ==
  /\ phase = "tracking" /\ m_MaxNumTracts <= 0
  /\ m_CurrentTracts >= 1 /\ ~m_StopTracking

\* The number of maximal runs of consecutive points of fib that lie in
\* voxel v: the points that enter v, the first point of the fiber included.
RunsIn(fib, v) ==
  Cardinality({k \in DOMAIN fib :
                 /\ WorldToIndex(fib[k]) = v
                 /\ (k = 1 \/ WorldToIndex(fib[k - 1]) # v)})

\* Thread w has a fiber accepted in density-map mode.
AcceptsIntoMap(w) ==
  /\ m_UseOutputProbabilityMap /\ phase = "tracking"
  /\ pc[w] = "accept" /\ pc'[w] = "endtrial" /\ loc'[w].success

\* C32: in density-map mode an accepted fiber makes one increment for each
\* transition of the voxel index along it, its first point being a
\* transition into its voxel: every maximal run of consecutive points in
\* one voxel of the volume adds exactly one to that voxel, whatever the
\* index of the voxel.
C32_OneIncrementForEveryRun ==
  [][\A w \in Team :
       AcceptsIntoMap(w)
       => \A v \in Voxels :
            m_OutputProbabilityMap'.count[v] =
              m_OutputProbabilityMap.count[v] + RunsIn(loc[w].fib, v)]_vars

\* The same, but for a run of voxel 0 at the beginning of the fiber, which
\* the code does not count (last_idx is filled with 0, line 884).
C32_ButTheFirstRunInVoxelZero ==
  [][\A w \in Team :
       AcceptsIntoMap(w)
       => \A v \in Voxels :
            m_OutputProbabilityMap'.count[v] =
              m_OutputProbabilityMap.count[v] + RunsIn(loc[w].fib, v)
                - (IF v = 0 /\ WorldToIndex(loc[w].fib[1]) = 0
                   THEN 1 ELSE 0)]_vars

\* No point of a fiber under construction lies in the exclusion mask.
NoExcludedPoint ==
  \A w \in Team :
    phase = "tracking" =>
      \A k \in DOMAIN loc[w].fib : ~Excluded(loc[w].fib[k])

\* C33 (as stated): in a step the tests come in the order exclusion, abort,
\* append: no position inside the exclusion mask is added to a fiber, and
\* once m_AbortTracking is set no thread adds a further point or direction
\* to a streamline.
C33_NoPointAfterAbort ==
  [][/\ NoExcludedPoint'
     /\ \A w \in Team :
          (phase = "tracking" /\ m_AbortTracking)
          => /\ Len(loc'[w].fib) <= Len(loc[w].fib)
             /\ Len(loc'[w].direction_container)
                  <= Len(loc[w].direction_container)]_vars

\* C33 (amended): no position inside the exclusion mask is added to a
\* fiber, and a step that reads m_AbortTracking set adds nothing.  Once
\* m_AbortTracking is set, a thread that is not between the read of the
\* flag and the addition never comes to the addition again: all it adds to
\* a fiber is the seed that is put in front after the forward pass.  A
\* thread that has read the flag clear still adds the point and the
\* direction of that step.
C33_NoStepPastTheAbortTest ==
  [][/\ NoExcludedPoint'
     /\ \A w \in Team :
          (phase = "tracking" /\ m_AbortTracking /\ pc[w] # "fs_append")
          => /\ pc'[w] # "fs_append"
             /\ Len(loc'[w].direction_container)
                  <= Len(loc[w].direction_container)
             /\ \/ Len(loc'[w].fib) <= Len(loc[w].fib)
                \/ loc'[w].fib = <<loc[w].worldPos>> \o loc[w].fib]_vars

\* m_AbortTracking was set with a thread between the read of the flag and
\* the addition of the point, and another thread is at the read.
C33_Witness ==
  /\ phase = "tracking" /\ m_AbortTracking
  /\ \E w1, w2 \in Team :
       /\ pc[w1] = "fs_append"
       /\ pc[w2] = "fs_step" /\ loc[w2].step < StepsOfAPass

\* C34: the progress counter of the status text is never above the number
\* of seeds, however the threads that take seeds from the cursor and add
\* to the counter are interleaved.
C34_ProgressAtMostNumSeeds ==
  phase = "tracking" => m_Progress <= num_seeds

\* The progress is reported, and with one thread at a time it comes to the
\* number of seeds exactly.
C34_ProgressReported ==
  phase = "tracking" /\ m_Verbose /\ m_Progress = num_seeds /\ num_seeds > 0

\* The tractogram is the output and the demo mode is off.
TractCollectionMode == ~m_UseOutputProbabilityMap /\ ~m_DemoMode

\* seq is the beginning of longer.
IsPrefix(seq, longer) ==
  Len(seq) <= Len(longer) /\ SubSeq(longer, 1, Len(seq)) = seq

\* C35: with the tractogram as output and the demo mode off, in every state
\* outside the critical section of the acceptance m_CurrentTracts is the
\* number of fibers of the tractogram, and in the parallel region both only
\* grow.
C35_CounterIsTractogramSize ==
  [][(TractCollectionMode /\ phase' = "tracking")
     => /\ m_CurrentTracts' = Len(m_Tractogram')
        /\ phase = "tracking"
             => /\ m_CurrentTracts' >= m_CurrentTracts
                /\ IsPrefix(m_Tractogram, m_Tractogram')]_vars

\* Two threads have had a fiber accepted each.
C35_Witness ==
  /\ TractCollectionMode /\ phase = "tracking" /\ NumberOfThreads > 1
  /\ m_CurrentTracts = 2 /\ Len(m_Tractogram) = 2
  /\ {hist.accepted[k].seed : k \in DOMAIN hist.accepted} = {0, 1}

\* The seeds that were given to a thread.
DispatchedSeeds == {s \in DOMAIN hist.tracked : hist.tracked[s] >= 1}

\* C36: a seed gives at most one accepted fiber, with a deterministic and
\* with a probabilistic handler and whatever m_TrialsPerSeed is: the
\* accepted fibers of a run are never more than the seeds that were given to
\* a thread, at the end of the run in particular.
C36_AtMostOneFiberPerSeed ==
  phase \in {"tracking", "finished"} =>
    /\ \A s \in DOMAIN hist.tracked : Cardinality(AcceptedOf(s)) <= 1
    /\ \A k \in DOMAIN hist.accepted : hist.accepted[k].seed \in DispatchedSeeds
    /\ m_CurrentTracts = Len(hist.accepted)
    /\ m_CurrentTracts <= Cardinality(DispatchedSeeds)

\* A probabilistic run with several trials for a seed has ended: the second
\* trial of its seed was accepted, and no other.
C36_Witness ==
  /\ phase = "finished" /\ Mode = "PROBABILISTIC" /\ m_TrialsPerSeed > 1
  /\ m_CurrentTracts = 1 /\ Cardinality(DispatchedSeeds) = 1
  /\ \E k \in DOMAIN hist.accepted : hist.accepted[k].trial = 2

\* C37: with the demo mode off, under fair scheduling and with a caller that
\* clears m_PauseTracking whenever it is set, the parallel region ends for
\* every seed list, m_TrialsPerSeed and m_MaxLength: every thread leaves the
\* loop of the seeds and AfterTracking runs, also when m_AbortTracking or
\* m_StopTracking is set in the middle of the run.
C37_ParallelRegionEnds ==
  (phase = "tracking")
    ~> (phase = "finished" /\ \A w \in Team : pc[w] = "exit")

\* A run has ended that was aborted after a fiber was accepted, with
\* m_PauseTracking clear again.
C37_Witness ==
  /\ phase = "finished" /\ ~m_DemoMode /\ NumberOfThreads > 1
  /\ m_AbortTracking /\ ~m_PauseTracking
  /\ m_CurrentTracts >= 1 /\ \A w \in Team : pc[w] = "exit"

\* A run has ended by m_StopTracking.
C37_EndedByStop ==
  /\ phase = "finished" /\ m_StopTracking /\ NumberOfThreads > 1

\* Position p passes the test of line 387: a direction can be had there.
InMaskAndNotStopped(p) ==
  /\ IsInsideMask(p, m_MaskInterpolator)
  /\ ~IsInsideMask(p, m_StopInterpolator)

\* C38: in every accepted fiber all points but the two end points are in
\* the tracking mask and not in the stopping mask; only the last point a
\* pass has added may be outside the tracking mask or in the stopping mask.
C38_InnerPointsInTrackingRegion ==
  phase \in {"tracking", "finished"} =>
    \A k \in DOMAIN hist.accepted :
      LET fib == hist.accepted[k].fib
      IN \A j \in 2 .. (Len(fib) - 1) : InMaskAndNotStopped(fib[j])

\* An accepted fiber of three points or more ends in the stopping mask or
\* outside the tracking mask.
C38_Witness ==
  /\ phase \in {"tracking", "finished"}
  /\ \E k \in DOMAIN hist.accepted :
       LET fib == hist.accepted[k].fib
       IN /\ Len(fib) >= 3
          /\ \/ ~InMaskAndNotStopped(fib[1])
             \/ ~InMaskAndNotStopped(fib[Len(fib)])
          /\ \/ m_MaskImage # Ones
             \/ m_StoppingRegions # Zeros

\* The members hold what the caller has set: the constraint, the seed
\* points, and which of the images were given.
AsConfigured ==
  /\ m_EndpointConstraint = hist.user.constraint
  /\ m_SeedPoints = hist.user.seeds
  /\ (m_SeedImage # NoImage) = hist.user.seed
  /\ (m_TargetRegions # NoImage) = hist.user.target
  /\ (m_MaskImage # NoImage) = hist.user.mask
  /\ (m_StoppingRegions # NoImage) = hist.user.stopping

\* C39: a run that has ended leaves the configuration of the caller as it
\* was: after GenerateData the endpoint constraint, the seed points the
\* caller gave and whether the seed, target, tracking mask and stopping
\* images were given are as before the run, so that a second run starts from
\* the same configuration.
C39_RunLeavesConfiguration ==
  phase = "finished" => AsConfigured

\* The configuration of the caller lacks the image its endpoint constraint
\* needs: the test of lines 259-262 throws on it.
MissingImage ==
  LET user == hist.user
      constraint == EndpointAutoSetting(user.constraint, user.target, user.seed)
  IN CheckEndpointConstraint(constraint, user.target, user.seed, Ones, Ones) = "throw"

\* Before the first run the members are as the caller has set them.
C39_BeforeTheFirstRun ==
  (phase = "configured" /\ hist.outputs = << >> /\ ~MissingImage) => AsConfigured

\* C40: a configuration error leaves the filter as it was: whenever
\* GenerateData is started on a filter whose configuration lacks the image
\* its endpoint constraint needs, on the first run or on a run after the
\* error, BeforeTracking throws and no thread of the team is started.
C40_SameErrorOnEveryRun ==
  [][(phase = "configured" /\ phase' # "configured" /\ MissingImage)
       => (phase' = "error" /\ pc' = pc)]_vars

\* The first run on such a configuration throws, and it is not the throw
\* that leaves the filter as it was: the default images are stored.
C40_FirstRunThrows ==
  [][(phase = "configured" /\ phase' # "configured" /\ MissingImage
        /\ m_StoppingRegions = NoImage)
       => (phase' = "error" /\ pc' = pc /\ m_TargetRegions' # NoImage)]_vars

\* A run was started again after the error.
C40_RetriedAfterError ==
  phase = "tracking" /\ MissingImage

====
